---- MODULE Spec2Model ----
(***************************************************************************)
(* A model of the InkyPi college-football plugins:                         *)
(*   src/cfbrankings/cfbrankings.py  (class CfbRankings)                   *)
(*   src/cfbrankings/ndschedule.py   (class NdSchedule)                    *)
(*                                                                         *)
(* Conventions.                                                            *)
(*  - A Python str is a sequence of one-character strings, so that strip,  *)
(*    lower, upper, startswith, "in" and slicing are computed.             *)
(*  - A JSON field that the code only reads through `x or ""` (None and    *)
(*    "" are the same to it) is the empty sequence when absent.            *)
(*  - A JSON value whose type the code inspects is a record with a tag t.  *)
(*  - time.time() is the variable now (seconds); every operation reads it  *)
(*    once, after the environment has advanced it by a delay.              *)
(*  - The HTTP collaborator's answer to a GET is an input of the           *)
(*    operation: fail (transport error or raise_for_status) or a payload.  *)
(***************************************************************************)
EXTENDS Integers, Sequences, FiniteSets, TLC

VARIABLES
    now,      \* time.time() as last read
    rcache,   \* CfbRankings._cache : [ts, data]
    ncache,   \* NdSchedule._cache  : [ts : url -> time, data : url -> payload]
    call,     \* the operation last invoked, with its arguments
    ret       \* what it returned or raised, and the GETs it issued

vars == <<now, rcache, ncache, call, ret>>

----------------------------------------------------------------------------
(* Python str operations on character sequences *)

UpperAlpha == <<"A","B","C","D","E","F","G","H","I","J","K","L","M",
                "N","O","P","Q","R","S","T","U","V","W","X","Y","Z">>
LowerAlpha == <<"a","b","c","d","e","f","g","h","i","j","k","l","m",
                "n","o","p","q","r","s","t","u","v","w","x","y","z">>
DigitChars == <<"0","1","2","3","4","5","6","7","8","9">>

IndexIn(c, alphabet) ==
    IF \E i \in 1..Len(alphabet) : alphabet[i] = c
    THEN CHOOSE i \in 1..Len(alphabet) : alphabet[i] = c
    ELSE 0

ToLowerMap == [c \in {UpperAlpha[i] : i \in 1..26} |-> LowerAlpha[IndexIn(c, UpperAlpha)]]
ToUpperMap == [c \in {LowerAlpha[i] : i \in 1..26} |-> UpperAlpha[IndexIn(c, LowerAlpha)]]
DigitMap == [c \in {DigitChars[i] : i \in 1..10} |-> IndexIn(c, DigitChars) - 1]

LowerChar(c) == IF c \in DOMAIN ToLowerMap THEN ToLowerMap[c] ELSE c
UpperChar(c) == IF c \in DOMAIN ToUpperMap THEN ToUpperMap[c] ELSE c

StrLower(s) == [i \in 1..Len(s) |-> LowerChar(s[i])]
StrUpper(s) == [i \in 1..Len(s) |-> UpperChar(s[i])]

IsSpace(c) == c = " "

StrStrip(s) ==
    LET keep == {i \in 1..Len(s) : ~IsSpace(s[i])}
    IN  IF keep = {} THEN <<>>
        ELSE LET lo == CHOOSE i \in keep : \A j \in keep : i <= j
                 hi == CHOOSE i \in keep : \A j \in keep : i >= j
             IN  SubSeq(s, lo, hi)

StartsWith(s, p) == Len(p) <= Len(s) /\ SubSeq(s, 1, Len(p)) = p

Contains(sub, s) ==
    \E i \in 0..(Len(s) - Len(sub)) : SubSeq(s, i + 1, i + Len(sub)) = sub

\* s[:n]
Prefix(s, n) == IF Len(s) <= n THEN s ELSE SubSeq(s, 1, n)

IsDigitStr(s) == Len(s) > 0 /\ \A i \in 1..Len(s) : s[i] \in DOMAIN DigitMap

RECURSIVE DigitsToInt(_)
DigitsToInt(s) ==
    IF Len(s) = 0 THEN 0
    ELSE 10 * DigitsToInt(SubSeq(s, 1, Len(s) - 1)) + DigitMap[s[Len(s)]]

RECURSIVE IntToDigits(_)
IntToDigits(n) ==
    IF n < 10 THEN <<DigitChars[n + 1]>>
    ELSE IntToDigits(n \div 10) \o <<DigitChars[(n % 10) + 1]>>

\* str(n) / f"{n}" of an int
IntToStr(n) == IF n < 0 THEN <<"-">> \o IntToDigits(0 - n) ELSE IntToDigits(n)

----------------------------------------------------------------------------
(* JSON payloads *)

\* Python None as a payload (resp.json() of the JSON text null, or "no data yet")
NoneDoc == [t |-> "none"]

\* The answer of one GET
Fail == [fail |-> TRUE, data |-> NoneDoc]
Ok(d) == [fail |-> FALSE, data |-> d]

\* dict[k] = v on a dict modelled as a function
Put(f, k, v) == [x \in (DOMAIN f) \cup {k} |-> IF x = k THEN v ELSE f[x]]

EmptyDict == [x \in {} |-> 0]

----------------------------------------------------------------------------
(* Fetch / cache *)

RankingsCacheInit == [ts |-> 0, data |-> NoneDoc]
NdCacheInit == [ts |-> EmptyDict, data |-> EmptyDict]

\* the test of cfbrankings.py line 100
RankingsHitLate(c, ttl, t) == ttl > 0 /\ c.data # NoneDoc /\ (t - c.ts) <= ttl
RankingsHitNever(c, ttl, t) == FALSE
RankingsHit(c, ttl, t) == ttl > 0 /\ c.data # NoneDoc /\ (t - c.ts) < ttl

\* the test of cfbrankings.py line 108
RankingsStoreAlways(ttl) == TRUE
RankingsStore(ttl) == ttl > 0

\* CfbRankings._get_rankings_cached(ttl) at time t, the GET (if issued) answering resp.
\* ok = FALSE: the call raised.  gets: the number of GETs issued.
GetRankingsCached(c, ttl, t, resp) ==
    IF RankingsHit(c, ttl, t)
    THEN [ok |-> TRUE, data |-> c.data, cache |-> c, gets |-> 0]
    ELSE IF resp.fail
    THEN [ok |-> FALSE, data |-> NoneDoc, cache |-> c, gets |-> 1]
    ELSE [ok |-> TRUE, data |-> resp.data,
          cache |-> IF RankingsStore(ttl) THEN [ts |-> t, data |-> resp.data] ELSE c,
          gets |-> 1]

\* self._cache["ts"].get(url, 0.0)
NdTs(c, url) == IF url \in DOMAIN c.ts THEN c.ts[url] ELSE 0

\* the test of ndschedule.py line 117
NdHit(c, url, ttl, t) == ttl > 0 /\ url \in DOMAIN c.data /\ (t - NdTs(c, url)) < ttl

\* the test of ndschedule.py line 123
NdStore(ttl) == ttl > 0

\* a fetch that stamps the key with the time of a failed GET
FetchJsonCachedStamped(c, url, ttl, t, resp) ==
    IF NdHit(c, url, ttl, t)
    THEN [ok |-> TRUE, data |-> c.data[url], cache |-> c, gets |-> 0]
    ELSE IF resp.fail
    THEN [ok |-> FALSE, data |-> NoneDoc,
          cache |-> IF NdStore(ttl) THEN [c EXCEPT !.ts = Put(c.ts, url, t)] ELSE c,
          gets |-> 1]
    ELSE [ok |-> TRUE, data |-> resp.data,
          cache |-> IF NdStore(ttl)
                    THEN [ts |-> Put(c.ts, url, t), data |-> Put(c.data, url, resp.data)]
                    ELSE c,
          gets |-> 1]

\* NdSchedule._fetch_json_cached(url, ttl) at time t, the GET (if issued) answering resp
FetchJsonCached(c, url, ttl, t, resp) ==
    IF NdHit(c, url, ttl, t)
    THEN [ok |-> TRUE, data |-> c.data[url], cache |-> c, gets |-> 0]
    ELSE IF resp.fail
    THEN [ok |-> FALSE, data |-> NoneDoc, cache |-> c, gets |-> 1]
    ELSE [ok |-> TRUE, data |-> resp.data,
          cache |-> IF NdStore(ttl)
                    THEN [ts |-> Put(c.ts, url, t), data |-> Put(c.data, url, resp.data)]
                    ELSE c,
          gets |-> 1]

----------------------------------------------------------------------------
(* JSON scalars and lists whose type the code inspects *)

JNone == [t |-> "none", n |-> 0, s |-> <<>>]
JInt(k) == [t |-> "int", n |-> k, s |-> <<>>]
JStr(x) == [t |-> "str", n |-> 0, s |-> x]
JBool(b) == [t |-> "bool", n |-> IF b THEN 1 ELSE 0, s |-> <<>>]

\* Python truthiness of a scalar
Truthy(v) ==
    CASE v.t = "none" -> FALSE
      [] v.t = "int"  -> v.n # 0
      [] v.t = "bool" -> v.n = 1
      [] v.t = "str"  -> v.s # <<>>
      [] OTHER        -> TRUE

\* a or b or ... : the first truthy operand, else the last one
RECURSIVE OrChain(_)
OrChain(vs) ==
    IF Len(vs) = 1 THEN vs[1]
    ELSE IF Truthy(vs[1]) THEN vs[1] ELSE OrChain(Tail(vs))

\* the same over strings, where None and "" are both the empty sequence
RECURSIVE FirstNonEmpty(_)
FirstNonEmpty(ss) ==
    IF ss = <<>> THEN <<>>
    ELSE IF ss[1] # <<>> THEN ss[1] ELSE FirstNonEmpty(Tail(ss))

\* a JSON value that may be a list, a dict or None
NoneVal == [t |-> "none"]
ListVal(l) == [t |-> "list", l |-> l]

IsList(v) == v.t = "list"
IsDict(v) == v.t = "dict"
ValTruthy(v) == IF v.t = "list" THEN v.l # <<>> ELSE v.t # "none"

----------------------------------------------------------------------------
(* datetime.fromisoformat on the date strings the model knows *)

D_0907 == <<"2","0","2","4","-","0","9","-","0","7","T","1","9",":","3","0","Z">>
D_0831 == <<"2","0","2","4","-","0","8","-","3","1","T","2","3",":","3","0","Z">>
D_0914 == <<"2","0","2","4","-","0","9","-","1","4">>
D_0907n == <<"2","0","2","4","-","0","9","-","0","7","T","1","9",":","3","0">>
D_bad == <<"n","o","t","-","a","-","d","a","t","e">>
D_tbd == <<"T","B","D">>
D_long == <<"2","0","2","4","-","0","9","-","0","7"," ","a","t"," ","n","o","o","n">>
D_0921 == <<"2","0","2","4","-","0","9","-","2","1","T","1","9",":","3","0","Z">>

\* raw: the string; epoch: its instant (a naive one read as UTC); aware: whether
\* it carries an offset; date_part / time_part: strftime("%b %d") and the
\* 12-hour clock time of the instant in America/New_York
IsoTable == {
    [raw |-> D_0907,  epoch |-> 1725737400, aware |-> TRUE,
     date_part |-> <<"S","e","p"," ","0","7">>, time_part |-> <<"3",":","3","0"," ","P","M">>],
    [raw |-> D_0831,  epoch |-> 1725147000, aware |-> TRUE,
     date_part |-> <<"A","u","g"," ","3","1">>, time_part |-> <<"7",":","3","0"," ","P","M">>],
    [raw |-> D_0921,  epoch |-> 1726947000, aware |-> TRUE,
     date_part |-> <<"S","e","p"," ","2","1">>, time_part |-> <<"3",":","3","0"," ","P","M">>],
    [raw |-> D_0914,  epoch |-> 1726272000, aware |-> FALSE,
     date_part |-> <<"S","e","p"," ","1","3">>, time_part |-> <<"8",":","0","0"," ","P","M">>],
    [raw |-> D_0907n, epoch |-> 1725737400, aware |-> FALSE,
     date_part |-> <<"S","e","p"," ","0","7">>, time_part |-> <<"3",":","3","0"," ","P","M">>] }

IsoOk(s) == \E d \in IsoTable : d.raw = s
IsoOf(s) == CHOOSE d \in IsoTable : d.raw = s

----------------------------------------------------------------------------
(* CfbRankings._pick_poll *)

NonePoll == [t |-> "none"]

\* norm(s) = str(s or "").strip().lower()
Norm(s) == StrLower(StrStrip(s))

\* one loop of parse_date over the values of the keys tried in order:
\* the first value that is present and parses decides
RECURSIVE FirstParsed(_)
FirstParsed(vs) ==
    IF vs = <<>> THEN [found |-> FALSE, e |-> 0]
    ELSE IF vs[1] # <<>> /\ IsoOk(vs[1]) THEN [found |-> TRUE, e |-> IsoOf(vs[1]).epoch]
    ELSE FirstParsed(Tail(vs))

\* parse_date(p): p.dates are the values of date, lastUpdated, lastUpdate, updated,
\* updateDate; p.occ those of occurrence.startDate, occurrence.endDate (empty when
\* occurrence is no dict)
ParseDate(p) ==
    LET a == FirstParsed(p.dates)
        b == FirstParsed(p.occ)
    IN  IF a.found THEN a.e ELSE IF b.found THEN b.e ELSE 0

S_ap == <<"a","p">>
S_aptop == <<"a","p"," ","t","o","p">>
S_coaches == <<"c","o","a","c","h","e","s">>
S_afca == <<"a","f","c","a">>
S_cfp == <<"c","f","p">>
S_auto == <<"a","u","t","o">>
S_playoff == <<"p","l","a","y","o","f","f">>
S_committee == <<"c","o","m","m","i","t","t","e","e">>
S_selcom == <<"s","e","l","e","c","t","i","o","n"," ","c","o","m","m","i","t","t","e","e">>
S_psc == S_playoff \o <<" ">> \o S_selcom
S_pscr == S_psc \o <<" ","r","a","n","k","i","n","g","s">>

IsApTypeOnly(p) == Norm(p.type) = S_ap
IsAp(p) ==
    IF Norm(p.type) = S_ap THEN TRUE
    ELSE Contains(S_ap, Norm(p.shortName)) \/ Contains(S_aptop, Norm(p.name))

IsCoaches(p) ==
    IF Norm(p.type) = S_coaches THEN TRUE
    ELSE \/ Contains(S_coaches, Norm(p.name))
         \/ Contains(S_afca, Norm(p.name))
         \/ Contains(S_coaches, Norm(p.shortName))

\* is_cfp with a type of another kind deciding first
IsCfpUnlessTyped(p) ==
    IF Norm(p.type) \in {S_ap, S_coaches} THEN FALSE
    ELSE \/ Contains(S_psc, Norm(p.name))
         \/ Contains(S_cfp, Norm(p.name) \o <<" ">> \o Norm(p.shortName) \o <<" ">>
                            \o Norm(p.type) \o <<" ">> \o Norm(p.headline))
IsCfp(p) ==
    LET n == Norm(p.name)
        blob == n \o <<" ">> \o Norm(p.shortName) \o <<" ">> \o Norm(p.type)
                  \o <<" ">> \o Norm(p.headline)
    IN  IF n = S_pscr THEN TRUE
        ELSE IF Contains(S_psc, n) THEN TRUE
        ELSE \/ (Contains(S_playoff, blob) /\ Contains(S_committee, blob))
             \/ Contains(S_cfp, blob)
             \/ Contains(S_selcom, blob)

\* list.sort(key=parse_date, reverse=True): stable, equal keys keep their order
SortByDateDescUnstable(l) ==
    LET pos(i) == Cardinality({j \in 1..Len(l) : ParseDate(l[j]) > ParseDate(l[i])})
                  + Cardinality({j \in 1..Len(l) : j > i /\ ParseDate(l[j]) = ParseDate(l[i])}) + 1
    IN  [r \in 1..Len(l) |-> l[CHOOSE i \in 1..Len(l) : pos(i) = r]]
SortByDateAsc(l) ==
    LET pos(i) == Cardinality({j \in 1..Len(l) : ParseDate(l[j]) < ParseDate(l[i])})
                  + Cardinality({j \in 1..Len(l) : j < i /\ ParseDate(l[j]) = ParseDate(l[i])}) + 1
    IN  [r \in 1..Len(l) |-> l[CHOOSE i \in 1..Len(l) : pos(i) = r]]
\* l sorted by the keys key[i] of its elements, greatest first
SortDescBy(l, key) ==
    LET pos(i) == Cardinality({j \in 1..Len(l) : key[j] > key[i]})
                  + Cardinality({j \in 1..Len(l) : j < i /\ key[j] = key[i]}) + 1
    IN  [r \in 1..Len(l) |-> l[CHOOSE i \in 1..Len(l) : pos(i) = r]]
SortByDateDesc(l) == SortDescBy(l, [i \in 1..Len(l) |-> ParseDate(l[i])])

\* lines 119-123 reading a document that is itself a poll as a list of one poll
PollListOrSelf(data) ==
    LET a == data.rankings
        b == IF IsDict(a) THEN (IF ValTruthy(a.items) THEN a.items ELSE a.rankings) ELSE a
    IN  IF IsList(b) THEN b
        ELSE IF a.t = "none" /\ "ranks" \in DOMAIN data THEN ListVal(<<data>>)
        ELSE NoneVal
\* lines 119-123: the poll list of the document, NoneVal when there is none
PollList(data) ==
    LET a == data.rankings
        b == IF IsDict(a) THEN (IF ValTruthy(a.items) THEN a.items ELSE a.rankings) ELSE a
    IN  IF IsList(b) THEN b ELSE NoneVal

ApList(polls) == SortByDateDesc(SelectSeq(polls, LAMBDA p : IsDict(p) /\ IsAp(p)))
CoachesList(polls) == SortByDateDesc(SelectSeq(polls, LAMBDA p : IsDict(p) /\ IsCoaches(p)))
CfpList(polls) == SortByDateDesc(SelectSeq(polls, LAMBDA p : IsDict(p) /\ IsCfp(p)))

\* lines 201-207
AutoCandidatesApFirst(polls) ==
    (IF ApList(polls) # <<>> THEN <<ApList(polls)[1]>> ELSE <<>>)
    \o (IF CfpList(polls) # <<>> THEN <<CfpList(polls)[1]>> ELSE <<>>)
    \o (IF CoachesList(polls) # <<>> THEN <<CoachesList(polls)[1]>> ELSE <<>>)
AutoCandidates(polls) ==
    (IF CfpList(polls) # <<>> THEN <<CfpList(polls)[1]>> ELSE <<>>)
    \o (IF ApList(polls) # <<>> THEN <<ApList(polls)[1]>> ELSE <<>>)
    \o (IF CoachesList(polls) # <<>> THEN <<CoachesList(polls)[1]>> ELSE <<>>)

\* line 209: the answer when no poll is classified
FallbackPollLatest(polls) ==
    LET dicts == SelectSeq(polls, LAMBDA p : IsDict(p))
    IN  IF dicts # <<>> THEN SortByDateDesc(dicts)[1] ELSE NonePoll
FallbackPoll(polls) == IF polls # <<>> /\ IsDict(polls[1]) THEN polls[1] ELSE NonePoll

\* _pick_poll(data, choice); data is a dict
PickPoll(data, choice) ==
    LET pl == PollList(data)
    IN  IF ~IsList(pl) THEN NonePoll
        ELSE LET polls == pl.l
                 cands == AutoCandidates(polls)
             IN  IF choice = S_cfp
                 THEN (IF CfpList(polls) # <<>> THEN CfpList(polls)[1] ELSE NonePoll)
                 ELSE IF choice = S_ap
                 THEN (IF ApList(polls) # <<>> THEN ApList(polls)[1] ELSE NonePoll)
                 ELSE IF choice = S_coaches
                 THEN (IF CoachesList(polls) # <<>> THEN CoachesList(polls)[1] ELSE NonePoll)
                 ELSE IF cands = <<>> THEN FallbackPoll(polls)
                 ELSE SortByDateDesc(cands)[1]

----------------------------------------------------------------------------
(* CfbRankings._extract_ranks and CfbRankings._build_rows *)

\* int(x) of a scalar: ok = FALSE when it raises
IntOf(v) ==
    CASE v.t = "int"  -> [ok |-> TRUE, n |-> v.n]
      [] v.t = "bool" -> [ok |-> TRUE, n |-> v.n]
      [] v.t = "str"  ->
           LET x == StrStrip(v.s)
           IN  IF IsDigitStr(x) THEN [ok |-> TRUE, n |-> DigitsToInt(x)]
               ELSE IF Len(x) > 1 /\ x[1] = "-" /\ IsDigitStr(Tail(x))
               THEN [ok |-> TRUE, n |-> 0 - DigitsToInt(Tail(x))]
               ELSE [ok |-> FALSE, n |-> 0]
      [] OTHER        -> [ok |-> FALSE, n |-> 0]

\* lines 213-221; poll.ranks and poll.entries are a list, a dict of lists or None
ExtractRanks(poll) ==
    LET a == poll.ranks
        b == IF IsDict(a)
             THEN (IF ValTruthy(a.items) THEN a.items
                   ELSE IF ValTruthy(a.entries) THEN a.entries ELSE a.ranks)
             ELSE a
        c == IF IsList(b) THEN b
             ELSE IF ValTruthy(poll.entries) THEN poll.entries ELSE ListVal(<<>>)
        d == IF IsList(c) THEN c.l ELSE <<>>
    IN  SelectSeq(d, LAMBDA r : IsDict(r))

\* _to_int of lines 276-284
ToInt(x) ==
    IF x.t = "none" THEN [ok |-> FALSE, n |-> 0]
    ELSE IF x.t = "str" /\ ~IsDigitStr(StrStrip(x.s)) THEN [ok |-> FALSE, n |-> 0]
    ELSE IntOf(x)

EmptyTeam == [t |-> "dict", id |-> <<>>, shortDisplayName |-> <<>>, location |-> <<>>,
              displayName |-> <<>>, abbreviation |-> <<>>, name |-> <<>>,
              nickname |-> <<>>, logos |-> NoneVal, logo |-> <<>>]

\* entry.get("team") or entry.get("school") or {}, a non-dict becoming {}
TeamOf(entry) ==
    LET truthy(v) == v.t # "none" /\ v # EmptyTeam
        v == IF truthy(entry.team) THEN entry.team
             ELSE IF truthy(entry.school) THEN entry.school ELSE EmptyTeam
    IN  IF IsDict(v) THEN v ELSE EmptyTeam

S_Unknown == <<"U","n","k","n","o","w","n">>
S_svg == <<".","s","v","g">>
S_dashes == <<"-","-">>

EndsWith(s, suf) == Len(suf) <= Len(s) /\ SubSeq(s, Len(s) - Len(suf) + 1, Len(s)) = suf

\* lines 328-333
LogoArea(item) ==
    LET w == IF Truthy(item.width) THEN item.width ELSE JInt(0)
        h == IF Truthy(item.height) THEN item.height ELSE JInt(0)
    IN  IF IntOf(w).ok /\ IntOf(h).ok THEN IntOf(w).n * IntOf(h).n ELSE 0

\* the loop of lines 320-335: acc = [svg, area, href]
RECURSIVE LogoScan(_, _)
LogoScan(items, acc) ==
    IF items = <<>> THEN acc
    ELSE LET item == items[1]
         IN  IF ~IsDict(item) \/ item.href = <<>> THEN LogoScan(Tail(items), acc)
             ELSE LET svg == IF EndsWith(StrLower(item.href), S_svg) THEN item.href ELSE acc.svg
                      area == LogoArea(item)
                  IN  LogoScan(Tail(items),
                               IF area > acc.area
                               THEN [svg |-> svg, area |-> area, href |-> item.href]
                               ELSE [svg |-> svg, area |-> acc.area, href |-> acc.href])

IsDefaultLogo(item) ==
    IsDict(item) /\ IsList(item.rel) /\ (\E i \in 1..Len(item.rel.l) : item.rel.l[i] = "default")
    /\ item.href # <<>>

\* the first position of a list at which a test holds, 0 when it holds nowhere;
\* hit[i] is the test on the i-th element
FirstWhere(hit) ==
    IF \E i \in 1..Len(hit) : hit[i]
    THEN CHOOSE i \in 1..Len(hit) : hit[i] /\ \A j \in 1..(i - 1) : ~hit[j]
    ELSE 0

\* lines 314-353 with the default entry tried before the SVG
LogoOfDefaultFirst(team) ==
    IF ~(IsList(team.logos) /\ team.logos.l # <<>>) THEN <<>>
    ELSE LET items == team.logos.l
             scan == LogoScan(items, [svg |-> <<>>, area |-> 0, href |-> <<>>])
             d == FirstWhere([i \in 1..Len(items) |-> IsDefaultLogo(items[i])])
             f == FirstWhere([i \in 1..Len(items) |-> IsDict(items[i]) /\ items[i].href # <<>>])
         IN  IF d > 0 THEN items[d].href
             ELSE IF scan.svg # <<>> THEN scan.svg
             ELSE IF scan.href # <<>> THEN scan.href
             ELSE IF f > 0 THEN items[f].href
             ELSE <<>>
\* lines 314-353
LogoOf(team) ==
    IF ~(IsList(team.logos) /\ team.logos.l # <<>>) THEN <<>>
    ELSE LET items == team.logos.l
             scan == LogoScan(items, [svg |-> <<>>, area |-> 0, href |-> <<>>])
             d == FirstWhere([i \in 1..Len(items) |-> IsDefaultLogo(items[i])])
             f == FirstWhere([i \in 1..Len(items) |-> IsDict(items[i]) /\ items[i].href # <<>>])
         IN  IF scan.svg # <<>> THEN scan.svg
             ELSE IF d > 0 THEN items[d].href
             ELSE IF scan.href # <<>> THEN scan.href
             ELSE IF f > 0 THEN items[f].href
             ELSE <<>>

\* line 361
RowRecordCapped(rec, show_record, top_n) == IF show_record /\ top_n <= 20 THEN rec ELSE <<>>
RowRecord(rec, show_record, top_n) == IF show_record THEN rec ELSE <<>>

\* the body of the loop of lines 286-364 for one entry
RankRow(entry, show_record, top_n) ==
    LET rk == OrChain(entry.rk)
        cur == ToInt(rk)
        prev == ToInt(entry.previous)
        moved == cur.ok /\ prev.ok /\ cur.n # prev.n
        team == TeamOf(entry)
        sch == FirstNonEmpty(<<team.shortDisplayName, team.location, team.displayName,
                               team.abbreviation, team.name>>)
        school == IF sch # <<>> THEN sch ELSE S_Unknown
        nickname == FirstNonEmpty(<<team.name, team.nickname>>)
        rec == FirstNonEmpty(<<entry.recordSummary, entry.record>>)
    IN  [rank |-> IF rk.t # "none" THEN rk ELSE JStr(S_dashes),
         school |-> school,
         nickname |-> IF nickname # <<>> /\ ~Contains(StrLower(nickname), StrLower(school))
                      THEN nickname ELSE <<>>,
         logo |-> LogoOf(team),
         record |-> RowRecord(rec, show_record, top_n),
         move_dir |-> IF ~moved THEN "" ELSE IF cur.n < prev.n THEN "up" ELSE "down",
         move_delta |-> IF ~moved THEN 0
                        ELSE IF cur.n < prev.n THEN prev.n - cur.n ELSE cur.n - prev.n]

\* _build_rows(ranks, top_n, show_record)
BuildRows(ranks, top_n, show_record) ==
    [i \in 1..(IF Len(ranks) < top_n THEN Len(ranks) ELSE top_n)
        |-> RankRow(ranks[i], show_record, top_n)]

----------------------------------------------------------------------------
(* Settings *)

\* a setting that the plugin form did not send
Absent == [t |-> "absent", n |-> 0, s |-> <<>>]
\* a list-valued setting
JList(l) == [t |-> "list", n |-> 0, s |-> <<>>, l |-> l]

\* settings.get(key, default)
GetOr(v, default) == IF v.t = "absent" THEN default ELSE v
\* settings.get(key)
Get(v) == GetOr(v, JNone)

TrueTokens == { <<"1">>, <<"t","r","u","e">>, <<"y","e","s">>, <<"o","n">>,
                <<"c","h","e","c","k","e","d">> }
FalseTokens == { <<"0">>, <<"f","a","l","s","e">>, <<"n","o">>, <<"o","f","f">>, <<>> }

\* _to_bool(v), the same in both classes
ToBoolFirst(v) ==
    IF v.t = "bool" THEN v.n = 1
    ELSE IF v.t = "none" THEN FALSE
    ELSE LET w == IF v.t = "list" /\ v.l # <<>> THEN v.l[1] ELSE v
         IN  IF w.t = "str"
             THEN LET x == StrLower(StrStrip(w.s))
                  IN  IF x \in TrueTokens THEN TRUE
                      ELSE IF x \in FalseTokens THEN FALSE
                      ELSE TRUE
             ELSE IF w.t = "list" THEN w.l # <<>>
             ELSE Truthy(w)
ToBool(v) ==
    IF v.t = "bool" THEN v.n = 1
    ELSE IF v.t = "none" THEN FALSE
    ELSE LET w == IF v.t = "list" /\ v.l # <<>> THEN v.l[Len(v.l)] ELSE v
         IN  IF w.t = "str"
             THEN LET x == StrLower(StrStrip(w.s))
                  IN  IF x \in TrueTokens THEN TRUE
                      ELSE IF x \in FalseTokens THEN FALSE
                      ELSE TRUE
             ELSE IF w.t = "list" THEN w.l # <<>>
             ELSE Truthy(w)

Max(a, b) == IF a > b THEN a ELSE b
Min(a, b) == IF a < b THEN a ELSE b

\* max(lo, min(hi, int(settings.get(key) or dflt))); ok = FALSE when int() raises
ClampedInt(v, dflt, lo, hi) ==
    LET x == IF Truthy(Get(v)) THEN Get(v) ELSE JInt(dflt)
    IN  [ok |-> IntOf(x).ok, n |-> Max(lo, Min(hi, IntOf(x).n))]

----------------------------------------------------------------------------
(* CfbRankings.generate_image *)

S_title == <<"C","o","l","l","e","g","e"," ","F","o","o","t","b","a","l","l"," ",
             "R","a","n","k","i","n","g","s">>

RankingsUrl == [k |-> "rankings", team |-> 0, year |-> 0, v |-> 0]

\* the bundle handed to render_image (status "ok"), or the exception raised
Raised(status, gets) ==
    [status |-> status, rows |-> <<>>, title |-> <<>>, top_n |-> 0, two_column |-> FALSE,
     show_record |-> FALSE, year |-> 0, data |-> NoneDoc, gets |-> gets]

\* lines 53-58
PollMissingPlain(choice) == "RuntimeError: Selected poll not found in ESPN response."
PollMissing(choice) ==
    IF choice = S_cfp
    THEN "RuntimeError: CFP poll not found in ESPN rankings response. Outside the committee ranking window, ESPN may omit it."
    ELSE "RuntimeError: Selected poll not found in ESPN response."

\* generate_image(settings, device_config) at time t, with cache c, the GET (if
\* issued) answering resp.  Returns [out, cache].
\* (Line 45 of the file is dedented to column 0, which Python rejects; the
\* statement is read here as part of the method, as the lines around it require.)
RankingsImage(c, settings, t, resp) ==
    LET poll_choice == StrLower(StrStrip(IF settings.poll = <<>> THEN S_auto ELSE settings.poll))
        top_n == ClampedInt(settings.top_n, 20, 1, 25)
        show_record == ToBool(GetOr(settings.show_record, JBool(TRUE)))
        cache_minutes == ClampedInt(settings.cache_minutes, 30, 0, 1440)
        ttl == cache_minutes.n * 60
        f == GetRankingsCached(c, ttl, t, resp)
        gets == IF f.gets = 1 THEN <<RankingsUrl>> ELSE <<>>
        poll == PickPoll(f.data, poll_choice)
        title == StrStrip(IF FirstNonEmpty(<<poll.name, poll.shortName>>) # <<>>
                          THEN FirstNonEmpty(<<poll.name, poll.shortName>>) ELSE S_title)
    IN  IF ~top_n.ok \/ ~cache_minutes.ok
        THEN [out |-> Raised("ValueError", <<>>), cache |-> c]
        ELSE IF ~f.ok
        THEN [out |-> Raised("FetchError", gets), cache |-> f.cache]
        ELSE IF f.data = NoneDoc
        THEN [out |-> Raised("AttributeError", gets), cache |-> f.cache]
        ELSE IF poll = NonePoll
        THEN [out |-> Raised(PollMissing(poll_choice), gets), cache |-> f.cache]
        ELSE [out |-> [status |-> "ok",
                       rows |-> BuildRows(ExtractRanks(poll), top_n.n, show_record),
                       title |-> title,
                       top_n |-> top_n.n,
                       two_column |-> top_n.n > 15,
                       show_record |-> show_record,
                       year |-> 0,
                       data |-> NoneDoc,
                       gets |-> gets],
              cache |-> f.cache]

----------------------------------------------------------------------------
(* NdSchedule: utilities *)

ND_TEAM_ID == 87

NoInt == [ok |-> FALSE, n |-> 0]
SomeInt(k) == [ok |-> TRUE, n |-> k]

\* a score as the feed gives it: a scalar, or
\*   [t |-> "float", n |-> i, s |-> <<>>]   a float whose integer part is i,
\*   [t |-> "dict", d |-> <<value, displayValue, score>>],
\*   [t |-> "list", d |-> elements]
JFloat(i) == [t |-> "float", n |-> i, s |-> <<>>]
ScoreDict(value, displayValue) == [t |-> "dict", d |-> <<value, displayValue, JNone>>]
ScoreList(l) == [t |-> "list", d |-> l]

\* int(float(s)) of a string that is neither digits nor -digits: the integer part
\* of [-]digits.digits, and a ValueError (ok = FALSE) for anything else the data holds
IntOfFloatStr(x) ==
    LET neg == Len(x) > 0 /\ x[1] = "-"
        y == IF neg THEN Tail(x) ELSE x
        dots == {i \in 1..Len(y) : y[i] = "."}
    IN  IF Cardinality(dots) # 1 THEN NoInt
        ELSE LET k == CHOOSE i \in dots : TRUE
                 ip == SubSeq(y, 1, k - 1)
                 fp == SubSeq(y, k + 1, Len(y))
             IN  IF (ip = <<>> /\ fp = <<>>)
                    \/ (ip # <<>> /\ ~IsDigitStr(ip)) \/ (fp # <<>> /\ ~IsDigitStr(fp))
                 THEN NoInt
                 ELSE SomeInt(IF neg THEN 0 - DigitsToInt(ip) ELSE DigitsToInt(ip))

\* _safe_int(v), lines 186-208
RECURSIVE SafeInt(_)
SafeInt(v) ==
    CASE v.t = "none" -> NoInt
      [] v.t \in {"int", "float", "bool"} -> SomeInt(v.n)
      [] v.t = "dict" ->
           LET present == {i \in 1..Len(v.d) : v.d[i].t # "none"}
           IN  IF present = {} THEN NoInt
               ELSE SafeInt(v.d[CHOOSE i \in present : \A j \in present : i <= j])
      [] v.t = "list" -> IF v.d # <<>> THEN SafeInt(v.d[1]) ELSE NoInt
      [] v.t = "str" ->
           LET x == StrStrip(v.s)
           IN  IF x = <<>> THEN NoInt
               ELSE IF IsDigitStr(x) THEN SomeInt(DigitsToInt(x))
               ELSE IF x[1] = "-" /\ IsDigitStr(Tail(x)) THEN SomeInt(0 - DigitsToInt(Tail(x)))
               ELSE IntOfFloatStr(x)
      [] OTHER -> NoInt

\* _parse_iso(iso_str): ok = FALSE is None
ParseIso(x) ==
    IF x = <<>> \/ ~IsoOk(x) THEN [ok |-> FALSE, epoch |-> 0, aware |-> FALSE]
    ELSE [ok |-> TRUE, epoch |-> IsoOf(x).epoch, aware |-> IsoOf(x).aware]

S_post == <<"p","o","s","t">>
S_FINAL == <<"F","I","N","A","L">>
S_STATUS_FINAL == <<"S","T","A","T","U","S","_","F","I","N","A","L">>
S_home == <<"h","o","m","e">>
S_away == <<"a","w","a","y">>
S_TBD == <<"T","B","D">>

NoStatus == [t |-> "none"]
StatusType(completed, state, name, detail) ==
    [t |-> "dict", completed |-> completed, state |-> state, name |-> name,
     detail |-> detail, shortDetail |-> <<>>, description |-> <<>>]
Status(type) == [t |-> "dict", type |-> type]

FinalText(val) ==
    StartsWith(StrUpper(val), S_FINAL) \/ StartsWith(StrUpper(val), S_STATUS_FINAL)

\* _is_finalish(comp), lines 219-232.  comp.status is None or a dict (the last line
\* then compares the text of a dict, or "", with "final" and "post": never equal)
IsFinalishStateOnly(comp) ==
    LET st == IF comp.status.t = "dict" /\ comp.status.type.t # "none"
              THEN comp.status.type ELSE [t |-> "dict0"]
    IN  st.t = "dict" /\ (st.completed = JBool(TRUE) \/ StrLower(st.state) = S_post)
IsFinalish(comp) ==
    LET st == IF comp.status.t = "dict" /\ comp.status.type.t # "none"
              THEN comp.status.type ELSE [t |-> "dict0"]
    IN  IF st.t = "dict"
           /\ ( \/ st.completed = JBool(TRUE)
                \/ StrLower(st.state) = S_post
                \/ FinalText(st.name) \/ FinalText(st.detail)
                \/ FinalText(st.shortDetail) \/ FinalText(st.description) )
        THEN TRUE
        ELSE FALSE

\* _choose_school(team, meta), lines 241-249
ChooseSchool(team, meta) ==
    LET c == FirstNonEmpty(<<StrStrip(team.shortDisplayName), StrStrip(team.location),
                             StrStrip(team.displayName), StrStrip(team.abbreviation),
                             StrStrip(meta.shortDisplayName), StrStrip(meta.location),
                             StrStrip(meta.displayName), StrStrip(meta.abbreviation),
                             StrStrip(team.name), StrStrip(meta.name)>>)
    IN  IF c # <<>> THEN c ELSE S_Unknown

\* _nickname_v22(team, school), lines 251-255
NicknameV22(team, school) ==
    LET nickname == StrStrip(FirstNonEmpty(<<team.name, team.nickname>>))
    IN  IF nickname # <<>> /\ ~Contains(StrLower(nickname), StrLower(school))
        THEN nickname ELSE <<>>

\* the except branch of _format_game_datetime, line 488
DateFallbackTbd(iso_str) == S_TBD
DateFallback(iso_str) == Prefix(iso_str, 10)

\* _format_game_datetime(iso_str, show_time), lines 470-488
FormatGameDatetime(iso_str, show_time) ==
    IF iso_str = <<>> THEN S_TBD
    ELSE IF IsoOk(iso_str)
    THEN (IF ~show_time THEN IsoOf(iso_str).date_part
          ELSE IsoOf(iso_str).date_part \o <<" ", "/", " ">> \o IsoOf(iso_str).time_part)
    ELSE DateFallback(iso_str)

\* lines 444-455: [result, result_class]
GameResultNoStatus(nd_score, opp_score, finalish, has_winner_flag) ==
    IF nd_score.ok /\ opp_score.ok
    THEN (IF nd_score.n > opp_score.n
          THEN [result |-> <<"W", " ">> \o IntToStr(nd_score.n) \o <<"-">> \o IntToStr(opp_score.n),
                class |-> "win"]
          ELSE IF nd_score.n < opp_score.n
          THEN [result |-> <<"L", " ">> \o IntToStr(nd_score.n) \o <<"-">> \o IntToStr(opp_score.n),
                class |-> "lose"]
          ELSE [result |-> <<"T", " ">> \o IntToStr(nd_score.n) \o <<"-">> \o IntToStr(opp_score.n),
                class |-> "tie"])
    ELSE [result |-> <<>>, class |-> ""]
GameResult(nd_score, opp_score, finalish, has_winner_flag) ==
    IF nd_score.ok /\ opp_score.ok /\ (finalish \/ has_winner_flag)
    THEN (IF nd_score.n > opp_score.n
          THEN [result |-> <<"W", " ">> \o IntToStr(nd_score.n) \o <<"-">> \o IntToStr(opp_score.n),
                class |-> "win"]
          ELSE IF nd_score.n < opp_score.n
          THEN [result |-> <<"L", " ">> \o IntToStr(nd_score.n) \o <<"-">> \o IntToStr(opp_score.n),
                class |-> "lose"]
          ELSE [result |-> <<"T", " ">> \o IntToStr(nd_score.n) \o <<"-">> \o IntToStr(opp_score.n),
                class |-> "tie"])
    ELSE [result |-> <<>>, class |-> ""]

\* the two sides of a game, lines 405-415 (and 279-289 with the opponent's id):
\* the last competitor of each kind decides; 0 when there is none
LastWhere(hit) ==
    IF \E i \in 1..Len(hit) : hit[i]
    THEN CHOOSE i \in 1..Len(hit) : hit[i] /\ \A j \in (i + 1)..Len(hit) : ~hit[j]
    ELSE 0

\* str(team.get("id")) == str(id) for a competitor c; an absent id reads "None"
HasTeamId(c, idstr) == c.team.id # <<>> /\ c.team.id = idstr

\* comps[0] if isinstance(comps, list) and comps else ev
CompOf(ev) == IF ev.competitions # <<>> THEN ev.competitions[1] ELSE ev

----------------------------------------------------------------------------
(* NdSchedule: fetching.  w = [cache, gets] is NdSchedule._cache and the GETs
   issued so far; net says what each URL answers while the render runs. *)

\* the URLs, as the keys of the cache
ScheduleUrl(team, year, v) ==
    [k |-> "schedule", team |-> team, year |-> IF v = 7 THEN 0 ELSE year, v |-> v]
TeamDetailUrl(team) == [k |-> "team", team |-> team, year |-> 0, v |-> 0]
CoreUrl == [k |-> "core", team |-> 0, year |-> 0, v |-> 0]

Respond(net, url) ==
    CASE url.k = "core"     -> net.core
      [] url.k = "rankings" -> net.rank
      [] url.k = "team"     -> IF url.team = ND_TEAM_ID THEN net.ndteam ELSE net.meta
      [] url.k = "schedule" -> IF url.team = ND_TEAM_ID THEN net.nd[url.v] ELSE net.opp[url.v]

\* The value of a singleton set.  A result that later steps use more than once
\* is bound through one, The({ ... r ... : r \in {step} }), so that the step is
\* computed once, like the Python variable it stands for.
The(S) == CHOOSE x \in S : TRUE

Fetch(w, url, ttl, t, net) ==
    The({ [ok |-> f.ok, data |-> f.data,
           w |-> [cache |-> f.cache,
                  gets |-> IF f.gets = 1 THEN Append(w.gets, url) ELSE w.gets]]
          : f \in {FetchJsonCached(w.cache, url, ttl, t, Respond(net, url))} })

SchedDoc(events) == [t |-> "dict", events |-> events]

\* the loop of lines 152-160 from candidate v on
RECURSIVE FetchSchedFrom(_, _, _, _, _, _, _, _)
FetchSchedFrom(w, team, year, v, last, ttl, t, net) ==
    IF v > 7
    THEN [data |-> IF last # NoneDoc THEN last ELSE SchedDoc(<<>>), w |-> w]
    ELSE The({ IF ~f.ok THEN FetchSchedFrom(f.w, team, year, v + 1, last, ttl, t, net)
               ELSE IF f.data # NoneDoc /\ f.data.events # <<>>
               THEN [data |-> f.data, w |-> f.w]
               ELSE FetchSchedFrom(f.w, team, year, v + 1, f.data, ttl, t, net)
               : f \in {Fetch(w, ScheduleUrl(team, year, v), ttl, t, net)} })

\* _fetch_schedule_for_year(team_id, year, ttl): raising as soon as a request fails
FetchScheduleOrRaise(w, team, year, ttl, t, net) ==
    The({ [data |-> IF f.ok /\ f.data # NoneDoc THEN f.data ELSE SchedDoc(<<>>),
           w |-> f.w, raised |-> ~f.ok]
          : f \in {Fetch(w, ScheduleUrl(team, year, 1), ttl, t, net)} })
\* _fetch_schedule_for_year(team_id, year, ttl), lines 140-160; it never raises
FetchScheduleForYear(w, team, year, ttl, t, net) ==
    The({ [data |-> r.data, w |-> r.w, raised |-> FALSE]
          : r \in {FetchSchedFrom(w, team, year, 1, NoneDoc, ttl, t, net)} })

\* datetime.now().year while the model's clock runs
YearOfNow(t) == 2023

\* _detect_current_season_year(ttl), lines 128-138; a document's season is its
\* season.year, 0 when it has none
DetectCurrentSeasonYear(w, ttl, t, net) ==
    The({ [year |-> IF f.ok /\ f.data # NoneDoc /\ f.data.season # 0
                    THEN f.data.season ELSE YearOfNow(t),
           w |-> f.w]
          : f \in {Fetch(w, CoreUrl, ttl, t, net)} })

TeamDoc(team) == [t |-> "dict", team |-> team]

\* _get_team_meta(team_id, ttl), lines 174-181
GetTeamMeta(w, team_id, ttl, t, net) ==
    The({ [meta |-> IF f.ok /\ f.data # NoneDoc THEN f.data.team ELSE EmptyTeam, w |-> f.w]
          : f \in {Fetch(w, TeamDetailUrl(team_id), ttl, t, net)} })

\* _fetch_team_logo(ttl), lines 162-172: only its request matters to the cache
FetchTeamLogo(w, ttl, t, net) == Fetch(w, TeamDetailUrl(ND_TEAM_ID), ttl, t, net).w

----------------------------------------------------------------------------
(* NdSchedule._opponent_pregame_record *)

\* one game of the opponent's schedule, lines 267-307, on the tally
\* acc = [wins, losses, ties, raised]
PregameStepScoresFirst(acc, ev, oppstr, game_dt) ==
    LET ev_dt == ParseIso(ev.date)
        competitors == CompOf(ev).competitors
        mine == LastWhere([i \in 1..Len(competitors) |-> HasTeamId(competitors[i], oppstr)])
        other == LastWhere([i \in 1..Len(competitors) |-> ~HasTeamId(competitors[i], oppstr)])
        my_score == SafeInt(competitors[mine].score)
        other_score == SafeInt(competitors[other].score)
        flag == competitors[mine].winner
        byflag == [acc EXCEPT !.wins = @ + (IF flag.n = 1 THEN 1 ELSE 0),
                              !.losses = @ + (IF flag.n = 1 THEN 0 ELSE 1)]
    IN  IF ~ev_dt.ok THEN acc
        ELSE IF ev_dt.aware # game_dt.aware THEN [acc EXCEPT !.raised = TRUE]
        ELSE IF ev_dt.epoch >= game_dt.epoch THEN acc
        ELSE IF Len(competitors) < 2 THEN acc
        ELSE IF mine = 0 \/ other = 0 THEN acc
        ELSE IF ~my_score.ok \/ ~other_score.ok
        THEN (IF flag.t = "bool" THEN byflag ELSE acc)
        ELSE IF my_score.n > other_score.n THEN [acc EXCEPT !.wins = @ + 1]
        ELSE IF my_score.n < other_score.n THEN [acc EXCEPT !.losses = @ + 1]
        ELSE [acc EXCEPT !.ties = @ + 1]
PregameStep(acc, ev, oppstr, game_dt) ==
    LET ev_dt == ParseIso(ev.date)
        competitors == CompOf(ev).competitors
        mine == LastWhere([i \in 1..Len(competitors) |-> HasTeamId(competitors[i], oppstr)])
        other == LastWhere([i \in 1..Len(competitors) |-> ~HasTeamId(competitors[i], oppstr)])
        my_score == SafeInt(competitors[mine].score)
        other_score == SafeInt(competitors[other].score)
        flag == competitors[mine].winner
        byflag == [acc EXCEPT !.wins = @ + (IF flag.n = 1 THEN 1 ELSE 0),
                              !.losses = @ + (IF flag.n = 1 THEN 0 ELSE 1)]
    IN  IF ~ev_dt.ok THEN acc
        ELSE IF ev_dt.aware # game_dt.aware THEN [acc EXCEPT !.raised = TRUE]
        ELSE IF ev_dt.epoch >= game_dt.epoch THEN acc
        ELSE IF Len(competitors) < 2 THEN acc
        ELSE IF mine = 0 \/ other = 0 THEN acc
        ELSE IF ~my_score.ok \/ ~other_score.ok
        THEN (IF flag.t = "bool" THEN byflag ELSE acc)
        ELSE IF flag.t = "bool" THEN byflag
        ELSE IF my_score.n > other_score.n THEN [acc EXCEPT !.wins = @ + 1]
        ELSE IF my_score.n < other_score.n THEN [acc EXCEPT !.losses = @ + 1]
        ELSE [acc EXCEPT !.ties = @ + 1]

RECURSIVE PregameFold(_, _, _, _)
PregameFold(acc, events, oppstr, game_dt) ==
    IF events = <<>> \/ acc.raised THEN acc
    ELSE The({ PregameFold(a, Tail(events), oppstr, game_dt)
               : a \in {PregameStep(acc, events[1], oppstr, game_dt)} })

\* line 308
RecordText(acc) ==
    IF acc.ties # 0
    THEN IntToStr(acc.wins) \o <<"-">> \o IntToStr(acc.losses) \o <<"-">> \o IntToStr(acc.ties)
    ELSE IntToStr(acc.wins) \o <<"-">> \o IntToStr(acc.losses)

\* _opponent_pregame_record(opp_team_id, season_year, game_dt_utc, ttl), lines
\* 257-308; game_dt is the parsed date of the game.  raised: a TypeError left it
\* (an offset-naive date compared with an offset-aware one)
OpponentPregameRecord(w, opp_team_id, season_year, game_dt, ttl, t, net) ==
    IF opp_team_id = 0 \/ ~game_dt.ok THEN [s |-> <<>>, raised |-> FALSE, w |-> w]
    ELSE The({ The({ [s |-> IF acc.raised THEN <<>> ELSE RecordText(acc),
                      raised |-> acc.raised, w |-> f.w]
                     : acc \in {PregameFold([wins |-> 0, losses |-> 0, ties |-> 0,
                                             raised |-> FALSE],
                                            f.data.events, IntToStr(opp_team_id), game_dt)} })
               : f \in {FetchScheduleForYear(w, opp_team_id, season_year, ttl, t, net)} })

----------------------------------------------------------------------------
(* NdSchedule._get_rank_map *)

\* poll_iso(p): the first date field that is present
PollIso(p) == FirstNonEmpty(p.dates)
\* poll_epoch(p)
PollEpoch(p) == IF PollIso(p) # <<>> /\ IsoOk(PollIso(p)) THEN IsoOf(PollIso(p)).epoch ELSE 0

\* is_cfp of lines 340-342
NdIsCfp(p) == Contains(S_psc, Norm(p.name)) \/ Contains(S_cfp, Norm(p.shortName))

\* the loop of lines 372-382 and the filter of line 383
RECURSIVE RankMapOf(_, _)
RankMapOf(ranks, m) ==
    IF ranks = <<>> THEN m
    ELSE LET r == ranks[1]
             rk == OrChain(SubSeq(r.rk, 1, 3))
             team == IF r.team.t = "dict" THEN r.team ELSE EmptyTeam
         IN  The({ RankMapOf(Tail(ranks), m2)
                   : m2 \in {IF IsDict(r) /\ team.id # <<>> /\ rk.t # "none" /\ IntOf(rk).ok
                             THEN Put(m, team.id, IntOf(rk).n) ELSE m} })

RankMapFilter(m) ==
    LET keep == {k \in DOMAIN m : 1 <= m[k] /\ m[k] <= 25}
    IN  [k \in keep |-> m[k]]

\* list.sort(key=poll_epoch, reverse=True)
SortByEpochDesc(l) == SortDescBy(l, [i \in 1..Len(l) |-> PollEpoch(l[i])])

\* the poll the ranks are taken from, lines 352-356
RankSourceApFirst(polls) ==
    LET cfp == SortByEpochDesc(SelectSeq(polls, LAMBDA p : IsDict(p) /\ NdIsCfp(p)))
        ap == SortByEpochDesc(SelectSeq(polls, LAMBDA p : IsDict(p) /\ IsAp(p)))
    IN  IF ap # <<>> THEN ap[1] ELSE IF cfp # <<>> THEN cfp[1] ELSE NonePoll
RankSource(polls) ==
    LET cfp == SortByEpochDesc(SelectSeq(polls, LAMBDA p : IsDict(p) /\ NdIsCfp(p)))
        ap == SortByEpochDesc(SelectSeq(polls, LAMBDA p : IsDict(p) /\ IsAp(p)))
    IN  IF cfp # <<>> THEN cfp[1] ELSE IF ap # <<>> THEN ap[1] ELSE NonePoll

\* the ranks of a poll, lines 363-369 (as _extract_ranks, non-dicts kept for the loop)
PollRanks(poll) ==
    LET a == poll.ranks
        b == IF IsDict(a)
             THEN (IF ValTruthy(a.items) THEN a.items
                   ELSE IF ValTruthy(a.entries) THEN a.entries ELSE a.ranks)
             ELSE a
        c == IF IsList(b) THEN b
             ELSE IF ValTruthy(poll.entries) THEN poll.entries ELSE ListVal(<<>>)
    IN  IF IsList(c) THEN c.l ELSE <<>>

\* _get_rank_map(ttl), lines 310-384: [status, map, label, w]; status is "ok" or
\* the exception that left it
GetRankMap(w, ttl, t, net) ==
    The({ LET pl == PollList(f.data)
              poll == RankSource(pl.l)
          IN  IF ~f.ok
              THEN [status |-> "FetchError", map |-> EmptyDict, label |-> <<>>, w |-> f.w]
              ELSE IF f.data = NoneDoc
              THEN [status |-> "AttributeError", map |-> EmptyDict, label |-> <<>>, w |-> f.w]
              ELSE IF ~IsList(pl) \/ poll = NonePoll
              THEN [status |-> "ok", map |-> EmptyDict, label |-> <<>>, w |-> f.w]
              ELSE [status |-> "ok",
                    map |-> RankMapFilter(RankMapOf(PollRanks(poll), EmptyDict)),
                    label |-> StrStrip(FirstNonEmpty(<<poll.shortName, poll.name>>)),
                    w |-> f.w]
          : f \in {Fetch(w, RankingsUrl, ttl, t, net)} })

----------------------------------------------------------------------------
(* NdSchedule._build_rows and NdSchedule.generate_image *)

NoRank == 0

\* the opponent's logo, lines 423-432
OppLogo(opp_team, hide_logo) ==
    IF hide_logo THEN <<>>
    ELSE LET items == IF IsList(opp_team.logos) THEN opp_team.logos.l ELSE <<>>
             f == FirstWhere([i \in 1..Len(items) |-> IsDict(items[i]) /\ items[i].href # <<>>])
         IN  IF f > 0 THEN items[f].href ELSE opp_team.logo

\* line 435: the enrichment of one row
RowPregameRecord(w, opp_id, season_year, game_dt, ttl, t, net) ==
    IF IsDigitStr(opp_id) /\ game_dt.ok
    THEN OpponentPregameRecord(w, DigitsToInt(opp_id), season_year, game_dt, ttl, t, net)
    ELSE [s |-> <<>>, raised |-> FALSE, w |-> w]

\* the body of the loop of lines 392-467 for one event: [skip, raised, row, w]
SchedRow(w, ev, rank_map, show_rank, season_year, ttl, show_time, hide_logo, t, net) ==
    LET game_dt == ParseIso(ev.date)
        comp == CompOf(ev)
        competitors == comp.competitors
        ndi == LastWhere([i \in 1..Len(competitors)
                            |-> HasTeamId(competitors[i], IntToStr(ND_TEAM_ID))])
        oppi == LastWhere([i \in 1..Len(competitors)
                             |-> ~HasTeamId(competitors[i], IntToStr(ND_TEAM_ID))])
        nd_side == competitors[ndi]
        opp_side == competitors[oppi]
        opp_team == opp_side.team
        opp_id == opp_team.id
        ha == StrLower(nd_side.homeAway)
        res == GameResult(SafeInt(nd_side.score), SafeInt(opp_side.score), IsFinalish(comp),
                          nd_side.winner.t = "bool" \/ opp_side.winner.t = "bool")
    IN  IF ndi = 0 \/ oppi = 0
        THEN [skip |-> TRUE, raised |-> FALSE, row |-> <<>>, w |-> w]
        ELSE The({ The({
               LET school == ChooseSchool(opp_team, m.meta)
                   nickname == NicknameV22(IF m.meta # EmptyTeam THEN m.meta ELSE opp_team,
                                           school)
               IN  [skip |-> FALSE, raised |-> rec.raised,
                    row |-> [date |-> FormatGameDatetime(ev.date, show_time),
                             site |-> IF comp.neutralSite THEN "Neutral"
                                      ELSE IF ha = S_home THEN "Home"
                                      ELSE IF ha = S_away THEN "Away" ELSE "",
                             opp_rank |-> IF show_rank /\ opp_id \in DOMAIN rank_map
                                          THEN rank_map[opp_id] ELSE NoRank,
                             logo |-> OppLogo(opp_team, hide_logo),
                             opp_school |-> school,
                             opp_nickname |-> nickname,
                             opp_record |-> rec.s,
                             result |-> res.result,
                             result_class |-> res.class],
                    w |-> rec.w]
               : rec \in {RowPregameRecord(m.w, opp_id, season_year, game_dt, ttl, t, net)} })
             : m \in {IF IsDigitStr(opp_id)
                      THEN GetTeamMeta(w, DigitsToInt(opp_id), ttl, t, net)
                      ELSE [meta |-> EmptyTeam, w |-> w]} })

\* _build_rows, lines 386-468: [raised, rows, w]
RECURSIVE NdBuildRows(_, _, _, _, _, _, _, _, _, _, _)
NdBuildRows(w, events, rows, rank_map, show_rank, season_year, ttl, show_time, hide_logo, t, net) ==
    IF events = <<>> THEN [raised |-> FALSE, rows |-> rows, w |-> w]
    ELSE The({ IF r.skip
               THEN NdBuildRows(w, Tail(events), rows, rank_map, show_rank, season_year,
                                ttl, show_time, hide_logo, t, net)
               ELSE IF r.raised THEN [raised |-> TRUE, rows |-> <<>>, w |-> r.w]
               ELSE The({ NdBuildRows(r.w, Tail(events), rows2, rank_map, show_rank,
                                      season_year, ttl, show_time, hide_logo, t, net)
                          : rows2 \in {Append(rows, r.row)} })
               : r \in {SchedRow(w, events[1], rank_map, show_rank, season_year, ttl,
                                 show_time, hide_logo, t, net)} })

\* lines 68-72: the season of the schedule
SeasonYear(selected, current_year) ==
    LET v == Get(selected)
    IN  IF v.t = "int" THEN v.n
        ELSE IF v.t = "str" /\ StrStrip(v.s) # <<>> /\ IntOf(v).ok THEN IntOf(v).n
        ELSE current_year

\* generate_image(settings, device_config) at time t with cache c: [out, cache].
\* out.year is the season of the title.
ScheduleImage(c, settings, t, net) ==
    LET show_time == ToBool(GetOr(settings.show_time, JBool(TRUE)))
        show_rank_setting == ToBool(GetOr(settings.show_rank, JBool(TRUE)))
        hide_rank == ToBool(GetOr(settings.hide_rank, JBool(FALSE)))
        hide_logo == ToBool(GetOr(settings.hide_logo, JBool(FALSE)))
        cache_minutes == ClampedInt(settings.cache_minutes, 30, 0, 1440)
        ttl == cache_minutes.n * 60
    IN  IF ~cache_minutes.ok THEN [out |-> Raised("ValueError", <<>>), cache |-> c]
        ELSE
        The({ LET season_year == SeasonYear(settings.season_year, cur.year)
                  effective_show_rank ==
                      show_rank_setting /\ season_year = cur.year /\ ~hide_rank
              IN
          The({ IF sched.raised
                THEN [out |-> Raised("FetchError", sched.w.gets), cache |-> sched.w.cache]
                ELSE
            The({
              The({ IF rm.status # "ok"
                    THEN [out |-> Raised(rm.status, rm.w.gets), cache |-> rm.w.cache]
                    ELSE
                The({ IF b.raised
                      THEN [out |-> Raised("TypeError", b.w.gets), cache |-> b.w.cache]
                      ELSE [out |-> [Raised("ok", b.w.gets)
                                     EXCEPT !.rows = b.rows, !.year = season_year],
                            cache |-> b.w.cache]
                      : b \in {NdBuildRows(rm.w, sched.data.events, <<>>, rm.map,
                                           effective_show_rank, season_year, ttl,
                                           show_time, hide_logo, t, net)} })
                    : rm \in {IF effective_show_rank THEN GetRankMap(w1, ttl, t, net)
                              ELSE [status |-> "ok", map |-> EmptyDict, label |-> <<>>,
                                    w |-> w1]} })
              : w1 \in {IF hide_logo THEN sched.w ELSE FetchTeamLogo(sched.w, ttl, t, net)} })
            : sched \in {FetchScheduleForYear(cur.w, ND_TEAM_ID, season_year, ttl, t, net)} })
          : cur \in {DetectCurrentSeasonYear([cache |-> c, gets |-> <<>>], ttl, t, net)} })

----------------------------------------------------------------------------
(* The data the model feeds the plugins *)

N_APTop25 == <<"A","P"," ","T","o","p"," ","2","5">>
N_APPoll == <<"A","P"," ","P","o","l","l">>
N_AFCA == <<"A","F","C","A"," ","C","o","a","c","h","e","s"," ","P","o","l","l">>
N_CoachesPoll == <<"C","o","a","c","h","e","s"," ","P","o","l","l">>
N_CFP == <<"P","l","a","y","o","f","f"," ","S","e","l","e","c","t","i","o","n"," ",
           "C","o","m","m","i","t","t","e","e"," ","R","a","n","k","i","n","g","s">>
N_CFPRank == <<"C","F","P"," ","R","a","n","k","i","n","g","s">>
N_FCS == <<"F","C","S"," ","T","o","p"," ","2","5">>
N_FCSShort == <<"F","C","S">>
N_Snapshot == <<"S","n","a","p","s","h","o","t">>
T_AP == <<" ","A","P"," ">>
T_usa == <<"u","s","a">>
N_OhioState == <<"O","h","i","o"," ","S","t","a","t","e">>
N_Buckeyes == <<"B","u","c","k","e","y","e","s">>
N_Texas == <<"T","e","x","a","s">>
N_Longhorns == <<"L","o","n","g","h","o","r","n","s">>
N_Navy == <<"N","a","v","y">>
N_Midshipmen == <<"M","i","d","s","h","i","p","m","e","n">>
R_100 == <<"1","0","-","0">>
R_91 == <<"9","-","1">>
U_png == <<"a",".","p","n","g">>
U_big == <<"b","i","g",".","p","n","g">>
U_svg == <<"b",".","S","V","G">>
Id_ND == <<"8","7">>
Id_Navy == <<"2","4","2","6">>
Id_Texas == <<"2","5","1">>
Id_OhioState == <<"1","9","4">>
S_false == <<"f","a","l","s","e">>
S_21 == <<"2","1">>
S_0 == <<"0">>
S_1 == <<"1">>
S_abc == <<"a","b","c">>

Logo(href, w, h, rel) ==
    [t |-> "dict", href |-> href, width |-> w, height |-> h,
     rel |-> IF rel = <<>> THEN NoneVal ELSE ListVal(rel)]

Team(id, school, name, logos) ==
    [t |-> "dict", id |-> id, shortDisplayName |-> school, location |-> <<>>,
     displayName |-> <<>>, abbreviation |-> <<>>, name |-> name, nickname |-> <<>>,
     logos |-> logos, logo |-> <<>>]

TeamOhioState == Team(Id_OhioState, N_OhioState, N_Buckeyes,
                      ListVal(<<Logo(U_png, JInt(500), JInt(500), <<"full", "default">>)>>))
TeamTexas == Team(Id_Texas, N_Texas, N_Longhorns, NoneVal)
TeamNavy == Team(Id_Navy, N_Navy, N_Midshipmen,
                 ListVal(<<Logo(U_big, JInt(500), JInt(500), <<>>)>>))

RankEntry(cur, prev, team, recsum) ==
    [t |-> "dict", rk |-> <<cur, JNone, JNone, JNone>>, previous |-> prev,
     team |-> team, school |-> NoneVal, recordSummary |-> recsum, record |-> <<>>]

EntryA == RankEntry(JInt(1), JInt(2), TeamOhioState, R_100)
EntryB == RankEntry(JInt(2), JInt(1), TeamTexas, R_91)
EntryC == RankEntry(JNone, JNone, TeamNavy, <<>>)

PollOf(type, name, short, date, ranks) ==
    [t |-> "dict", type |-> type, name |-> name, shortName |-> short, headline |-> <<>>,
     dates |-> <<date, <<>>, <<>>, <<>>, <<>>>>, occ |-> <<>>,
     ranks |-> ListVal(ranks), entries |-> NoneVal]

RankingsDoc(polls) ==
    [t |-> "dict", rankings |-> ListVal(polls)]

DocA == RankingsDoc(<<PollOf(S_ap, N_APTop25, N_APPoll, D_0907, <<EntryA, EntryB>>),
                      PollOf(T_usa, N_AFCA, N_CoachesPoll, D_0907, <<EntryB, EntryA>>)>>)
DocB == RankingsDoc(<<PollOf(S_ap, N_APTop25, N_APPoll, D_0914, <<EntryB, EntryA, EntryC>>),
                      PollOf(S_cfp, N_CFP, N_CFPRank, D_0914, <<EntryA, EntryC>>)>>)

\* the feed in two successive weeks, cut to one poll of one entry
Week1 == RankingsDoc(<<PollOf(S_ap, <<>>, S_ap, D_0907, <<RankEntry(JInt(1), JNone, EmptyTeam, R_91)>>)>>)
Week2 == RankingsDoc(<<PollOf(S_ap, <<>>, S_ap, D_0914, <<RankEntry(JInt(1), JInt(2), EmptyTeam, R_100)>>)>>)

\* what the rankings feed may answer
RankResps == {Fail, Ok(NoneDoc), Ok(Week1), Ok(Week2)}

\* settings of the rankings plugin
RSettings(poll, top_n, show_record, cache_minutes) ==
    [poll |-> poll, top_n |-> top_n, show_record |-> show_record,
     cache_minutes |-> cache_minutes]

RSettingsSet ==
    { RSettings(<<>>, Absent, Absent, JStr(S_1)),
      RSettings(S_ap, JStr(S_21), JStr(S_false), Absent),
      RSettings(S_cfp, JInt(1), JBool(TRUE), JStr(S_0)) }

NoSettings == [poll |-> <<>>]

----------------------------------------------------------------------------
(* Time *)

\* time.time() when the process starts
Epoch0 == 1700000000
\* the granularity of the delays between operations, in seconds
Tick == 30
\* how many ticks the clock advances in all
MaxTicks == 3

Delays == {0, Tick, 2 * Tick}
\* the ttl arguments of direct calls of the two fetch methods
TTLs == {0 - 60, 0, 60}

Advance(dt) ==
    /\ now + dt <= Epoch0 + MaxTicks * Tick
    /\ now' = now + dt

\* The two classes keep separate caches and no method reads both, so a behaviour
\* of the model fills one of them: the other plugin is exercised in another.
OnlyRankings == ncache = NdCacheInit
OnlySchedule == rcache = RankingsCacheInit

\* the keys of NdSchedule's cache used by direct calls
LeagueCoreUrl == [k |-> "core", team |-> 0, year |-> 0, v |-> 0]
TeamUrl == [k |-> "team", team |-> 87, year |-> 0, v |-> 0]
DirectUrls == {LeagueCoreUrl, TeamUrl}

CoreDoc(y) == [t |-> "dict", season |-> y]
DirectResps == {Fail, Ok(NoneDoc), Ok(CoreDoc(2024)), Ok(CoreDoc(2025))}

----------------------------------------------------------------------------
(* Operations *)

\* call.had and call.age record what the operation found in the cache when it
\* was invoked: whether the key had an entry, and how old its timestamp was
RankingsHad(c) == c.data # NoneDoc
NdHad(c, url) == url \in DOMAIN c.data

Init ==
    /\ now = Epoch0
    /\ rcache = RankingsCacheInit
    /\ ncache = NdCacheInit
    /\ call = [op |-> "none", ttl |-> 0, url |-> RankingsUrl, settings |-> NoSettings,
               had |-> FALSE, age |-> 0]
    /\ ret = Raised("none", <<>>)

\* a direct call of CfbRankings._get_rankings_cached(ttl)
CallGetRankingsCached ==
    \E dt \in Delays, ttl \in TTLs, resp \in RankResps :
        LET f == GetRankingsCached(rcache, ttl, now + dt, resp)
        IN  /\ OnlyRankings
            /\ Advance(dt)
            /\ rcache' = f.cache
            /\ call' = [op |-> "get_rankings_cached", ttl |-> ttl, url |-> RankingsUrl,
                        settings |-> NoSettings,
                        had |-> RankingsHad(rcache), age |-> now + dt - rcache.ts]
            /\ ret' = [Raised(IF f.ok THEN "ok" ELSE "FetchError",
                              IF f.gets = 1 THEN <<RankingsUrl>> ELSE <<>>)
                       EXCEPT !.data = f.data]
            /\ UNCHANGED ncache

\* a direct call of NdSchedule._fetch_json_cached(url, ttl)
CallFetchJsonCached ==
    \E dt \in Delays, ttl \in TTLs, url \in DirectUrls, resp \in DirectResps :
        LET f == FetchJsonCached(ncache, url, ttl, now + dt, resp)
        IN  /\ OnlySchedule
            /\ Advance(dt)
            /\ ncache' = f.cache
            /\ call' = [op |-> "fetch_json_cached", ttl |-> ttl, url |-> url,
                        settings |-> NoSettings,
                        had |-> NdHad(ncache, url), age |-> now + dt - NdTs(ncache, url)]
            /\ ret' = [Raised(IF f.ok THEN "ok" ELSE "FetchError",
                              IF f.gets = 1 THEN <<url>> ELSE <<>>)
                       EXCEPT !.data = f.data]
            /\ UNCHANGED rcache

\* CfbRankings.generate_image(settings, device_config)
RenderRankings ==
    \E dt \in Delays, settings \in RSettingsSet, resp \in RankResps :
        LET r == RankingsImage(rcache, settings, now + dt, resp)
        IN  /\ OnlyRankings
            /\ Advance(dt)
            /\ rcache' = r.cache
            /\ call' = [op |-> "rankings_image",
                        ttl |-> ClampedInt(settings.cache_minutes, 30, 0, 1440).n * 60,
                        url |-> RankingsUrl, settings |-> settings,
                        had |-> RankingsHad(rcache), age |-> now + dt - rcache.ts]
            /\ ret' = r.out
            /\ UNCHANGED ncache

Next == CallGetRankingsCached \/ CallFetchJsonCached \/ RenderRankings

Spec == Init /\ [][Next]_vars

----------------------------------------------------------------------------
(* Claims about the TTL cache *)

IsRankingsFetch(c) == c.op = "get_rankings_cached"
IsNdFetch(c) == c.op = "fetch_json_cached"
IsRankingsRender(c) == c.op = "rankings_image"

\* C1: with ttl > 0, a fetch that finds an entry for its key younger than ttl
\* returns the stored payload and issues no GET, in both classes; and a render
\* that follows a successful render with the same settings inside the TTL window
\* issues no GET and hands over the same rows, so that the two renders issue one
\* GET when the first one fetched.
C1_FreshEntryIsServed ==
    [][ /\ ( /\ IsRankingsFetch(call') /\ call'.ttl > 0
             /\ rcache.data # NoneDoc /\ (now' - rcache.ts) < call'.ttl )
           => (ret'.status = "ok" /\ ret'.data = rcache.data /\ ret'.gets = <<>>)
        /\ ( /\ IsNdFetch(call') /\ call'.ttl > 0
             /\ call'.url \in DOMAIN ncache.data
             /\ (now' - ncache.ts[call'.url]) < call'.ttl )
           => (ret'.status = "ok" /\ ret'.data = ncache.data[call'.url] /\ ret'.gets = <<>>)
        /\ ( /\ IsRankingsRender(call) /\ ret.status = "ok"
             /\ IsRankingsRender(call') /\ call'.settings = call.settings
             /\ call.ttl > 0 /\ (now' - rcache.ts) < call.ttl )
           => ( /\ ret'.status = "ok" /\ ret'.gets = <<>> /\ ret'.rows = ret.rows
                /\ (ret.gets # <<>> => Len(ret.gets) + Len(ret'.gets) = 1) )
      ]_vars

\* a render served from the cache some time after the entry was stored
C1_Witness ==
    /\ IsRankingsRender(call) /\ ret.status = "ok" /\ ret.rows # <<>>
    /\ call.ttl > 0 /\ call.had /\ call.age > 0 /\ call.age < call.ttl
    /\ ret.gets = <<>>

\* C2: with ttl = T > 0 an entry stored at t0 is served from the cache at every
\* time before t0 + T and fetched again at every time from t0 + T on; a fetch
\* that succeeds then replaces the key's timestamp and payload by its own.
C2_TtlBoundary ==
    [][ /\ ( IsRankingsFetch(call') /\ call'.ttl > 0 /\ rcache.data # NoneDoc )
           => ( /\ (now' < rcache.ts + call'.ttl) => (ret'.gets = <<>> /\ rcache' = rcache)
                /\ (now' >= rcache.ts + call'.ttl)
                     => ( /\ ret'.gets = <<RankingsUrl>>
                          /\ ret'.status = "ok" =>
                               (rcache'.ts = now' /\ rcache'.data = ret'.data) ) )
        /\ ( IsNdFetch(call') /\ call'.ttl > 0 /\ call'.url \in DOMAIN ncache.data )
           => ( /\ (now' < ncache.ts[call'.url] + call'.ttl)
                     => (ret'.gets = <<>> /\ ncache' = ncache)
                /\ (now' >= ncache.ts[call'.url] + call'.ttl)
                     => ( /\ ret'.gets = <<call'.url>>
                          /\ ret'.status = "ok" =>
                               ( /\ ncache'.ts[call'.url] = now'
                                 /\ ncache'.data[call'.url] = ret'.data ) ) )
      ]_vars

\* an entry read at exactly t0 + T was fetched again and replaced
C2_Witness ==
    /\ IsNdFetch(call) /\ call.ttl > 0 /\ call.had /\ call.age = call.ttl
    /\ ret.status = "ok" /\ ret.gets = <<call.url>>
    /\ ncache.ts[call.url] = now /\ ncache.data[call.url] = ret.data

\* C3: a fetch with ttl <= 0 issues a GET whatever the cache holds and leaves
\* both the timestamps and the payloads of every key as they were.
C3_NoTtlNoCache ==
    [][ ( /\ IsRankingsFetch(call') \/ IsNdFetch(call') \/ IsRankingsRender(call')
          /\ call'.ttl <= 0 /\ ret'.status # "ValueError" )
        => ( /\ ret'.gets = <<call'.url>>
             /\ rcache' = rcache
             /\ ncache' = ncache )
      ]_vars

\* a fetch with ttl <= 0 that found an entry stored at this very time
C3_Witness ==
    /\ IsNdFetch(call) /\ call.ttl <= 0 /\ call.had /\ call.age = 0
    /\ ret.status = "ok" /\ ret.gets = <<call.url>>
    /\ ncache.data[call.url] # ret.data

\* the operation raised on the answer of its GET
GetFailed(c, r) ==
    /\ IsRankingsFetch(c) \/ IsNdFetch(c) \/ IsRankingsRender(c)
    /\ r.status = "FetchError"

\* the key's entry, as the cache holds it, would be served to a fetch at time t
FreshFor(c, t) ==
    IF IsNdFetch(c)
    THEN c.ttl > 0 /\ c.url \in DOMAIN ncache.data /\ (t - NdTs(ncache, c.url)) < c.ttl
    ELSE c.ttl > 0 /\ rcache.data # NoneDoc /\ (t - rcache.ts) < c.ttl

\* C19: a fetch whose GET fails raises without handing over a payload (the
\* expired one included) and leaves the timestamps and the payloads of every
\* key of both caches as they were; the failure is not remembered: the next
\* fetch of that key that finds no entry or an expired one issues a GET.
C19_FailedGetLeavesCache ==
    [][ /\ GetFailed(call', ret')
           => ( /\ rcache' = rcache /\ ncache' = ncache
                /\ ret'.data = NoneDoc
                /\ ret'.gets = <<call'.url>> )
        /\ ( /\ GetFailed(call, ret)
             /\ IsRankingsFetch(call') \/ IsNdFetch(call')
             /\ call'.op = call.op /\ call'.url = call.url
             /\ ~FreshFor(call', now') )
           => ret'.gets = <<call'.url>>
      ]_vars

\* a failed fetch that found an expired entry, which is still there with its
\* old timestamp
C19_Witness ==
    /\ IsNdFetch(call) /\ ret.status = "FetchError" /\ ret.gets = <<call.url>>
    /\ call.ttl > 0 /\ call.had /\ call.age >= call.ttl
    /\ call.url \in DOMAIN ncache.data
    /\ ncache.ts[call.url] = now - call.age

\* the same in the rankings plugin
C19_WitnessRankings ==
    /\ IsRankingsFetch(call) /\ ret.status = "FetchError"
    /\ call.ttl > 0 /\ call.had /\ call.age >= call.ttl
    /\ rcache.data # NoneDoc /\ rcache.ts = now - call.age

----------------------------------------------------------------------------
(* Poll selection: _pick_poll and the render on documents of up to MaxPolls
   polls.  call holds the document and the choice, ret what came back. *)

\* the longest poll list of a document
MaxPolls == 3

SeqsUpTo(S, n) == UNION {[1..k -> S] : k \in 0..n}

P_ap07 == PollOf(S_ap, N_APTop25, N_APPoll, D_0907, <<EntryA>>)
P_ap14 == PollOf(T_AP, N_APTop25, <<>>, D_0914, <<EntryB>>)
P_apUndated == PollOf(<<>>, <<>>, N_APPoll, <<>>, <<EntryA, EntryB>>)
P_co07 == PollOf(T_usa, N_AFCA, N_CoachesPoll, D_0907, <<EntryB>>)
P_cfp07 == PollOf(<<>>, N_CFP, N_CFPRank, D_0907, <<EntryA, EntryB>>)
P_cfpBad == PollOf(S_cfp, <<>>, N_CFPRank, D_bad, <<EntryB, EntryA>>)
P_fcs14 == PollOf(<<>>, N_FCS, N_FCSShort, D_0914, <<EntryC>>)

P_fcs07 == PollOf(<<>>, N_FCS, N_FCSShort, D_0907, <<EntryA>>)
P_fcsUndated == PollOf(<<>>, N_FCS, N_FCSShort, <<>>, <<EntryB>>)
\* polls whose type says AP and whose names say something else
P_apNamedCfp == PollOf(S_ap, N_CFPRank, <<>>, D_0907, <<EntryA>>)
P_apNamedCoaches == PollOf(S_ap, N_AFCA, N_CoachesPoll, D_0914, <<EntryB>>)

PollUniverse == {P_ap07, P_ap14, P_apUndated, P_co07, P_cfp07, P_cfpBad, P_fcs14}
\* lists without a classified poll; one element may be null
UnclassifiedUniverse == {P_fcs07, P_fcs14, P_fcsUndated, NoneVal}
\* lists of polls whose fields name more than one kind
MixedUniverse == {P_apNamedCfp, P_apNamedCoaches, P_co07, P_cfp07}
PollDocs ==
    {RankingsDoc(l) : l \in SeqsUpTo(PollUniverse, MaxPolls)
                           \cup SeqsUpTo(UnclassifiedUniverse, MaxPolls)
                           \cup SeqsUpTo(MixedUniverse, MaxPolls)}
Choices == {S_auto, S_ap, S_coaches, S_cfp}

InitPoll ==
    /\ now = Epoch0
    /\ rcache = RankingsCacheInit
    /\ ncache = NdCacheInit
    /\ \E doc \in PollDocs, choice \in Choices :
           call = [op |-> "none", doc |-> doc, choice |-> choice]
    /\ ret = Raised("none", <<>>)

\* _pick_poll(data, choice)
CallPickPoll ==
    /\ call.op = "none"
    /\ call' = [call EXCEPT !.op = "pick_poll"]
    /\ ret' = [status |-> "ok", poll |-> PickPoll(call.doc, call.choice)]
    /\ UNCHANGED <<now, rcache, ncache>>

\* generate_image with the poll setting, the feed answering the document
RenderPoll ==
    LET r == RankingsImage(rcache, RSettings(call.choice, Absent, Absent, Absent),
                           now, Ok(call.doc))
    IN  /\ call.op = "none"
        /\ call' = [call EXCEPT !.op = "rankings_image"]
        /\ rcache' = r.cache
        /\ ret' = r.out
        /\ UNCHANGED <<now, ncache>>

NextPoll == CallPickPoll \/ RenderPoll

SpecPoll == InitPoll /\ [][NextPoll]_vars

\* the polls of the document of the call, and those of one kind
CallPolls == call.doc.rankings.l
OfKind(kind, p) ==
    CASE kind = S_cfp     -> IsCfp(p)
      [] kind = S_ap      -> IsAp(p)
      [] kind = S_coaches -> IsCoaches(p)
      [] OTHER            -> IsCfp(p) \/ IsAp(p) \/ IsCoaches(p)
KindIndexes(kind) ==
    {i \in 1..Len(CallPolls) : IsDict(CallPolls[i]) /\ OfKind(kind, CallPolls[i])}
\* of a set of positions, those whose poll has the greatest timestamp
Latest(I) == {i \in I : \A j \in I : ParseDate(CallPolls[j]) <= ParseDate(CallPolls[i])}

\* C5: with choice auto and some poll classified AP, COACHES or CFP, the poll
\* returned is a classified poll whose timestamp is the greatest of all
\* classified polls (hence of the most recent poll of each kind); among equal
\* greatest timestamps a CFP poll wins, then an AP poll, then a COACHES poll;
\* an unclassified poll is not returned, even when it is the latest of all.
C5_AutoLatestThenKind ==
    (call.op = "pick_poll" /\ call.choice = S_auto /\ KindIndexes(S_auto) # {})
    => LET top == Latest(KindIndexes(S_auto))
       IN  /\ \E i \in top : ret.poll = CallPolls[i]
           /\ (\E i \in top : IsCfp(CallPolls[i])) => IsCfp(ret.poll)
           /\ ( /\ ~(\E i \in top : IsCfp(CallPolls[i]))
                /\ \E i \in top : IsAp(CallPolls[i]) ) => IsAp(ret.poll)
           /\ ( /\ ~(\E i \in top : IsCfp(CallPolls[i]))
                /\ ~(\E i \in top : IsAp(CallPolls[i])) ) => IsCoaches(ret.poll)

\* AP, COACHES and CFP polls of one timestamp, and a later unclassified poll
\* elsewhere: the CFP poll came back
C5_Witness ==
    /\ call.op = "pick_poll" /\ call.choice = S_auto
    /\ CallPolls = <<P_ap07, P_co07, P_cfp07>>
    /\ ret.poll = P_cfp07

\* the unclassified poll is the latest of the document and is passed over
C5_WitnessUnclassified ==
    /\ call.op = "pick_poll" /\ call.choice = S_auto
    /\ CallPolls = <<P_fcs14, P_cfpBad, P_ap07>>
    /\ ret.poll = P_ap07

\* C6: with choice ap, coaches or cfp, the poll returned is a poll of that kind
\* whose timestamp (0 when no date of it parses) is the greatest among the polls
\* of that kind; when the document has no poll of that kind, whatever else it
\* holds, nothing is returned and the render raises: the CFP-window message for
\* cfp, the general message otherwise.
C6_ChoiceLatestOrNotFound ==
    (call.choice \in {S_ap, S_coaches, S_cfp})
    => LET kind == KindIndexes(call.choice)
       IN  /\ (call.op = "pick_poll" /\ kind # {})
                => \E i \in Latest(kind) : ret.poll = CallPolls[i]
           /\ (call.op = "pick_poll" /\ kind = {}) => ret.poll = NonePoll
           /\ (call.op = "rankings_image" /\ kind # {}) => ret.status = "ok"
           /\ (call.op = "rankings_image" /\ kind = {})
                => /\ ret.rows = <<>>
                   /\ call.choice = S_cfp =>
                        ret.status = "RuntimeError: CFP poll not found in ESPN rankings response. Outside the committee ranking window, ESPN may omit it."
                   /\ call.choice # S_cfp =>
                        ret.status = "RuntimeError: Selected poll not found in ESPN response."

\* cfp asked of a document that holds AP and coaches polls only
C6_Witness ==
    /\ call.op = "rankings_image" /\ call.choice = S_cfp
    /\ CallPolls = <<P_ap14, P_co07>>
    /\ ret.status # "ok" /\ ret.rows = <<>>

\* an undated poll of the kind loses to a dated one listed after it
C6_WitnessUndated ==
    /\ call.op = "pick_poll" /\ call.choice = S_ap
    /\ CallPolls = <<P_apUndated, P_fcs14, P_ap07>>
    /\ ParseDate(P_apUndated) = 0
    /\ ret.poll = P_ap07

\* the polls of the document that are objects, and whether any date of one parses
DictIndexes == {i \in 1..Len(CallPolls) : IsDict(CallPolls[i])}
Dated(I) == \E i \in I : ParseDate(CallPolls[i]) > 0
NoneClassified == call.choice = S_auto /\ KindIndexes(S_auto) = {}

C12_WitnessNullFirst ==
    /\ call.op = "rankings_image" /\ call.choice = S_auto
    /\ CallPolls = <<NoneVal, P_fcs14>>
    /\ ret.status # "ok"

\* the tests of the three kinds, on the fields read without the blanks around
\* them and in lower case
Field(x) == StrLower(StrStrip(x))
Blob(p) == Field(p.name) \o <<" ">> \o Field(p.shortName) \o <<" ">> \o Field(p.type)
           \o <<" ">> \o Field(p.headline)
PassesAp(p) ==
    \/ Field(p.type) = <<"a","p">>
    \/ Contains(<<"a","p">>, Field(p.shortName))
    \/ Contains(<<"a","p"," ","t","o","p">>, Field(p.name))
PassesCoaches(p) ==
    \/ Field(p.type) = <<"c","o","a","c","h","e","s">>
    \/ Contains(<<"c","o","a","c","h","e","s">>, Field(p.name))
    \/ Contains(<<"a","f","c","a">>, Field(p.name))
    \/ Contains(<<"c","o","a","c","h","e","s">>, Field(p.shortName))
PassesCfp(p) ==
    \/ Contains(<<"c","f","p">>, Blob(p))
    \/ Contains(<<"s","e","l","e","c","t","i","o","n"," ","c","o","m","m","i","t","t","e","e">>,
                Blob(p))
    \/ /\ Contains(<<"p","l","a","y","o","f","f">>, Blob(p))
       /\ Contains(<<"c","o","m","m","i","t","t","e","e">>, Blob(p))
Passes(kind, p) ==
    CASE kind = S_ap      -> PassesAp(p)
      [] kind = S_coaches -> PassesCoaches(p)
      [] kind = S_cfp     -> PassesCfp(p)
Passing(kind) == {i \in DictIndexes : Passes(kind, CallPolls[i])}
KindsOf(p) == {kind \in {S_ap, S_coaches, S_cfp} : Passes(kind, p)}

\* C14 as stated: no poll is a candidate of two kinds, and a poll whose type is
\* ap is never selected for coaches or for cfp.
C14_ExactlyOneKind ==
    call.op = "pick_poll"
    => /\ \A i \in DictIndexes : Cardinality(KindsOf(CallPolls[i])) <= 1
       /\ (call.choice \in {S_coaches, S_cfp} /\ ret.poll # NonePoll)
            => Field(ret.poll.type) # <<"a","p">>

\* C14, amended: the three kinds are tested one by one and a poll may pass
\* several.  AP: type ap, or "ap" in the shortName, or "ap top" in the name.
\* COACHES: type coaches, or "coaches" or "afca" in the name, or "coaches" in the
\* shortName.  CFP: "cfp", or "selection committee", or both "playoff" and
\* "committee", in name, shortName, type and headline joined by blanks; the type
\* is one of the texts searched and does not decide first.  For choice ap,
\* coaches or cfp the poll returned is a latest one of those passing that test
\* (nothing when none passes), whatever other tests it passes: a poll of type ap
\* named "CFP Rankings" is selected for cfp.
C14_KindsTestedSeparately ==
    (call.op = "pick_poll" /\ call.choice \in {S_ap, S_coaches, S_cfp})
    => IF Passing(call.choice) = {} THEN ret.poll = NonePoll
       ELSE \E i \in Latest(Passing(call.choice)) : ret.poll = CallPolls[i]

\* a poll of type ap named "CFP Rankings", asked for cfp, came back
C14_Witness ==
    /\ call.op = "pick_poll" /\ call.choice = S_cfp
    /\ CallPolls = <<P_apNamedCfp>>
    /\ KindsOf(P_apNamedCfp) = {S_ap, S_cfp}
    /\ ret.poll = P_apNamedCfp

\* a poll of type ap named "AFCA Coaches Poll" wins coaches over an older coaches poll
C14_WitnessCoaches ==
    /\ call.op = "pick_poll" /\ call.choice = S_coaches
    /\ CallPolls = <<P_co07, P_apNamedCoaches>>
    /\ ret.poll = P_apNamedCoaches

----------------------------------------------------------------------------
(* Document shapes: _pick_poll and the render on documents that hold their
   polls in different places.  call.shape names the place, call.items and
   call.inner are the values under "items" and "rankings" of the "rankings"
   object, call.doc is the document. *)

ShapePolls == {P_ap07, P_cfp07}
ShapeLists == {ListVal(l) : l \in SeqsUpTo(ShapePolls, MaxPolls)}

\* {"rankings": {"items": items, "rankings": inner}}
NestedDoc(items, inner) ==
    [t |-> "dict", rankings |-> [t |-> "dict", items |-> items, rankings |-> inner]]
\* a poll as the whole document: it has no "rankings" key
TopDoc(p) == [rankings |-> NoneVal] @@ p

InitShape ==
    /\ now = Epoch0
    /\ rcache = RankingsCacheInit
    /\ ncache = NdCacheInit
    /\ \E choice \in Choices :
         \/ \E l \in ShapeLists :
              call = [op |-> "none", shape |-> "direct", items |-> NoneVal, inner |-> l,
                      doc |-> RankingsDoc(l.l), choice |-> choice]
         \/ \E items \in ShapeLists \cup {NoneVal}, inner \in ShapeLists \cup {NoneVal} :
              call = [op |-> "none", shape |-> "nested", items |-> items, inner |-> inner,
                      doc |-> NestedDoc(items, inner), choice |-> choice]
         \/ \E p \in ShapePolls :
              call = [op |-> "none", shape |-> "top", items |-> NoneVal,
                      inner |-> ListVal(<<p>>), doc |-> TopDoc(p), choice |-> choice]
    /\ ret = Raised("none", <<>>)

NextShape == CallPickPoll \/ RenderPoll

SpecShape == InitShape /\ [][NextShape]_vars

\* what the selector and the render give on a plain list of polls
OnList(l) ==
    IF call.op = "pick_poll"
    THEN ret.poll = PickPoll(RankingsDoc(l), call.choice)
    ELSE ret = RankingsImage(RankingsCacheInit, RSettings(call.choice, Absent, Absent, Absent),
                             now, Ok(RankingsDoc(l))).out
\* what they give when the document has no poll list
OnNothing ==
    IF call.op = "pick_poll" THEN ret.poll = NonePoll
    ELSE ret.rows = <<>> /\ ret.status = PollMissing(call.choice)

\* the list under "items" when it is a non-empty list, else the one under "rankings"
NestedList == IF ValTruthy(call.items) THEN call.items ELSE call.inner

\* C13 as stated: the poll list is found under "rankings", under "items" or
\* "rankings" inside the "rankings" object, and in a document that is itself a
\* poll, which is read as a list of that one poll.
C13_ThreeShapes ==
    call.op \in {"pick_poll", "rankings_image"}
    => CASE call.shape = "direct" -> OnList(call.inner.l)
         [] call.shape = "nested" ->
              IF IsList(NestedList) THEN OnList(NestedList.l) ELSE OnNothing
         [] call.shape = "top" -> OnList(call.inner.l)

\* C13, amended: the poll list is found in two shapes: a list directly under
\* "rankings", and, when "rankings" is an object, the list under its "items" if
\* that is a non-empty list, else the list under its "rankings".  A document
\* that is itself a poll holds no poll list: the selector returns nothing for
\* every choice and the render raises the not-found error.
C13_TwoShapes ==
    call.op \in {"pick_poll", "rankings_image"}
    => CASE call.shape = "direct" -> OnList(call.inner.l)
         [] call.shape = "nested" ->
              IF IsList(NestedList) THEN OnList(NestedList.l) ELSE OnNothing
         [] call.shape = "top" -> OnNothing

\* an AP poll as the whole document, asked for ap: not found
C13_Witness ==
    /\ call.op = "rankings_image" /\ call.shape = "top" /\ call.doc = TopDoc(P_ap07)
    /\ call.choice = S_ap
    /\ ret.status = "RuntimeError: Selected poll not found in ESPN response."

\* an empty "items" beside a list under the inner "rankings": the inner list is read
C13_WitnessNested ==
    /\ call.op = "pick_poll" /\ call.shape = "nested" /\ call.choice = S_auto
    /\ call.items = ListVal(<<>>) /\ call.inner = ListVal(<<P_ap07>>)
    /\ ret.poll = P_ap07

----------------------------------------------------------------------------
(* Rankings rows: the render over the row settings *)

\* an entry whose record is under the key "record" only
EntryD == [RankEntry(JInt(3), JInt(3), TeamNavy, <<>>) EXCEPT !.record = R_91]
DocC == RankingsDoc(<<PollOf(S_ap, N_APTop25, N_APPoll, D_0914, <<EntryA, EntryD, EntryC>>)>>)

RowDocs == {DocA, DocB, DocC}
RowSettingsSet ==
    { RSettings(poll, top_n, show_record, Absent) :
        poll \in {<<>>, S_ap},
        top_n \in {Absent, JInt(1), JInt(20), JStr(S_21), JInt(21), JInt(25)},
        show_record \in {Absent, JBool(TRUE), JBool(FALSE), JStr(S_false),
                         JStr(<<"o","n">>)} }

InitRows ==
    /\ now = Epoch0
    /\ rcache = RankingsCacheInit
    /\ ncache = NdCacheInit
    /\ \E doc \in RowDocs, settings \in RowSettingsSet :
           call = [op |-> "none", doc |-> doc, settings |-> settings]
    /\ ret = Raised("none", <<>>)

\* generate_image(settings, device_config), the feed answering the document
RenderRows ==
    LET r == RankingsImage(rcache, call.settings, now, Ok(call.doc))
    IN  /\ call.op = "none"
        /\ call' = [call EXCEPT !.op = "rankings_image"]
        /\ rcache' = r.cache
        /\ ret' = r.out
        /\ UNCHANGED <<now, ncache>>

NextRows == RenderRows

SpecRows == InitRows /\ [][NextRows]_vars

\* the entries behind the rows of the render of the call
CallEntries ==
    ExtractRanks(PickPoll(call.doc, StrLower(StrStrip(IF call.settings.poll = <<>>
                                                       THEN S_auto ELSE call.settings.poll))))
EntryRecord(e) == IF e.recordSummary # <<>> THEN e.recordSummary ELSE e.record

\* C7 as stated: with topN 21 and show_record true every row has an empty record.
C7_RecordEmptyAt21 ==
    (call.op = "rankings_image" /\ ret.status = "ok" /\ ret.top_n = 21 /\ ret.show_record)
    => \A i \in 1..Len(ret.rows) : ret.rows[i].record = <<>>

\* C7, amended: the record of a row is emptied by the show-record flag alone.
\* Whatever topN is (21 included), with show_record true every row carries its
\* entry's record (recordSummary, else record, else empty), and with
\* show_record false every row's record is empty.
C7_RecordFollowsFlagOnly ==
    (call.op = "rankings_image" /\ ret.status = "ok")
    => \A i \in 1..Len(ret.rows) :
           ret.rows[i].record = IF ret.show_record THEN EntryRecord(CallEntries[i]) ELSE <<>>

\* topN 21, show_record true, and the rows show records
C7_Witness ==
    /\ call.op = "rankings_image" /\ ret.status = "ok"
    /\ ret.top_n = 21 /\ ret.show_record
    /\ Len(ret.rows) = 3
    /\ ret.rows[1].record = R_100 /\ ret.rows[2].record = R_91 /\ ret.rows[3].record = <<>>

----------------------------------------------------------------------------
(* Logos: the rankings render of one entry whose team has call.logos as its
   logos list *)

\* the longest logos list
MaxLogos == 3

U_def == <<"d",".","p","n","g">>
U_plain == <<"n",".","p","n","g">>
S_wide == <<"w","i","d","e">>

L_png == Logo(U_png, JInt(200), JInt(200), <<>>)
L_big == Logo(U_big, JInt(500), JInt(500), <<"full">>)
L_def == Logo(U_def, JInt(100), JInt(100), <<"full", "default">>)
L_svg == Logo(U_svg, JNone, JNone, <<"full">>)
L_plain == Logo(U_plain, JStr(S_wide), JInt(900), <<>>)
\* a default entry without a URL
L_nohref == Logo(<<>>, JInt(900), JInt(900), <<"default">>)

LogoUniverse == {L_png, L_big, L_def, L_svg, L_plain, L_nohref, NoneVal}
LogoLists == {NoneVal} \cup {ListVal(l) : l \in SeqsUpTo(LogoUniverse, MaxLogos)}

LogoDoc(logos) ==
    RankingsDoc(<<PollOf(S_ap, N_APTop25, N_APPoll, D_0907,
                         <<RankEntry(JInt(1), JNone,
                                     Team(Id_Navy, N_Navy, N_Midshipmen, logos), <<>>)>>)>>)

InitLogo ==
    /\ now = Epoch0
    /\ rcache = RankingsCacheInit
    /\ ncache = NdCacheInit
    /\ \E logos \in LogoLists : call = [op |-> "none", logos |-> logos]
    /\ ret = Raised("none", <<>>)

\* CfbRankings.generate_image on the one-entry poll
RenderLogo ==
    LET r == RankingsImage(rcache, RSettings(<<>>, Absent, Absent, Absent), now,
                           Ok(LogoDoc(call.logos)))
    IN  /\ call.op = "none"
        /\ call' = [call EXCEPT !.op = "rankings_image"]
        /\ rcache' = r.cache
        /\ ret' = r.out
        /\ UNCHANGED <<now, ncache>>

NextLogo == RenderLogo

SpecLogo == InitLogo /\ [][NextLogo]_vars

\* the entries of the logos list of the call, by position
CallLogos == IF IsList(call.logos) THEN call.logos.l ELSE <<>>
WithUrl == {i \in 1..Len(CallLogos) : IsDict(CallLogos[i]) /\ CallLogos[i].href # <<>>}
TaggedDefault ==
    {i \in WithUrl : IsList(CallLogos[i].rel)
                     /\ \E k \in 1..Len(CallLogos[i].rel.l) : CallLogos[i].rel.l[k] = "default"}
IsSvgUrl(u) == Len(u) >= 4 /\ StrLower(SubSeq(u, Len(u) - 3, Len(u))) = <<".","s","v","g">>
Svgs == {i \in WithUrl : IsSvgUrl(CallLogos[i].href)}
\* width x height, 0 when either is missing or no number
AreaAt(i) ==
    IF CallLogos[i].width.t = "int" /\ CallLogos[i].height.t = "int"
    THEN CallLogos[i].width.n * CallLogos[i].height.n ELSE 0
Largest == {i \in WithUrl : AreaAt(i) > 0 /\ \A j \in WithUrl : AreaAt(j) <= AreaAt(i)}
FirstOf(I) == CHOOSE i \in I : \A j \in I : i <= j
LastOf(I) == CHOOSE i \in I : \A j \in I : j <= i
LogoRendered == call.op = "rankings_image" /\ ret.status = "ok" /\ Len(ret.rows) = 1

\* C15 as stated: the default entry, else the largest, else the first with a
\* URL, else empty.
C15_DefaultFirst ==
    LogoRendered
    => ret.rows[1].logo =
         IF TaggedDefault # {} THEN CallLogos[FirstOf(TaggedDefault)].href
         ELSE IF Largest # {} THEN CallLogos[FirstOf(Largest)].href
         ELSE IF WithUrl # {} THEN CallLogos[FirstOf(WithUrl)].href
         ELSE <<>>

\* C15, amended: an entry counts when it is an object with a URL.  The logo is
\* the URL of the last entry whose URL ends in ".svg" (in any letter case); else
\* of the first entry tagged "default"; else of the first entry of the largest
\* positive width x height; else of the first entry; else empty.
C15_SvgThenDefault ==
    LogoRendered
    => ret.rows[1].logo =
         IF Svgs # {} THEN CallLogos[LastOf(Svgs)].href
         ELSE IF TaggedDefault # {} THEN CallLogos[FirstOf(TaggedDefault)].href
         ELSE IF Largest # {} THEN CallLogos[FirstOf(Largest)].href
         ELSE IF WithUrl # {} THEN CallLogos[FirstOf(WithUrl)].href
         ELSE <<>>

\* a default entry, a larger entry and an SVG: the SVG is shown
C15_Witness ==
    /\ LogoRendered /\ call.logos = ListVal(<<L_def, L_big, L_svg>>)
    /\ ret.rows[1].logo = U_svg

\* without an SVG the default entry wins over a larger one
C15_WitnessDefault ==
    /\ LogoRendered /\ call.logos = ListVal(<<L_big, L_nohref, L_def>>)
    /\ ret.rows[1].logo = U_def

----------------------------------------------------------------------------
(* Schedule data *)

N_NotreDame == <<"N","o","t","r","e"," ","D","a","m","e">>
N_FightingIrish == <<"F","i","g","h","t","i","n","g"," ","I","r","i","s","h">>
S_FinalOT == <<"F","i","n","a","l","/","O","T">>
S_statusfinal == <<"S","t","a","t","u","s","_","F","i","n","a","l">>
S_Post == <<"P","o","s","t">>
S_pre == <<"p","r","e">>
S_scheduled == <<"S","T","A","T","U","S","_","S","C","H","E","D","U","L","E","D">>
S_31 == <<"3","1">>
S_17 == <<"1","7">>
S_17p0 == <<"1","7",".","0">>

TeamND == Team(Id_ND, N_NotreDame, N_FightingIrish, NoneVal)

Competitor(team, score, winner, homeAway) ==
    [t |-> "dict", team |-> team, score |-> score, winner |-> winner, homeAway |-> homeAway]
Competition(competitors, status, neutral) ==
    [t |-> "dict", competitors |-> competitors, status |-> status, neutralSite |-> neutral]
\* an event with one competition
Game(date, comp) ==
    [t |-> "dict", date |-> date, competitions |-> <<comp>>,
     competitors |-> <<>>, status |-> NoStatus, neutralSite |-> FALSE]

\* settings of the schedule plugin
SSettings(show_time, show_rank, hide_rank, hide_logo, cache_minutes, season_year) ==
    [show_time |-> show_time, show_rank |-> show_rank, hide_rank |-> hide_rank,
     hide_logo |-> hide_logo, cache_minutes |-> cache_minutes, season_year |-> season_year]

AllFail == [v \in 1..7 |-> Fail]
\* the first candidate URL answers the document, the others fail
FirstAnswers(doc) == [v \in 1..7 |-> IF v = 1 THEN Ok(doc) ELSE Fail]

----------------------------------------------------------------------------
(* One game: the schedule render of a one-game season, and the date formatter.
   call holds the fields of the game. *)

GameStatuses ==
    { NoStatus,
      Status(StatusType(JBool(TRUE), <<>>, <<>>, <<>>)),
      Status(StatusType(JBool(FALSE), S_Post, <<>>, <<>>)),
      Status(StatusType(JBool(FALSE), S_pre, S_statusfinal, <<>>)),
      Status(StatusType(JNone, <<>>, <<>>, S_FinalOT)),
      Status(StatusType(JInt(1), S_pre, S_scheduled, <<>>)),
      Status(NoStatus) }
NdScores == {JNone, JStr(S_31), JInt(17), JStr(S_abc), ScoreDict(JNone, JStr(S_31))}
OppScores == {JNone, JStr(S_17), JInt(31), JStr(S_17p0), ScoreList(<<JFloat(31)>>)}
WinnerFlags == {<<JNone, JNone>>, <<JBool(TRUE), JNone>>, <<JNone, JBool(FALSE)>>}
GameDates == {<<>>, D_0907, D_0914, D_bad, D_tbd, D_long}

GameOf(c) ==
    Game(c.date,
         Competition(<<Competitor(TeamND, c.nd_score, c.flags[1], S_home),
                       Competitor(TeamNavy, c.opp_score, c.flags[2], S_away)>>,
                     c.status, FALSE))

\* the network of a one-game season: the opponent's own schedule is not served
GameNet(c) ==
    [core |-> Ok(CoreDoc(2024)), rank |-> Ok(DocB), ndteam |-> Fail,
     meta |-> Ok(TeamDoc(TeamNavy)),
     nd |-> FirstAnswers(SchedDoc(<<GameOf(c)>>)), opp |-> AllFail]

InitGame ==
    /\ now = Epoch0
    /\ rcache = RankingsCacheInit
    /\ ncache = NdCacheInit
    /\ \E date \in GameDates, nd_score \in NdScores, opp_score \in OppScores,
          status \in GameStatuses, flags \in WinnerFlags, show_time \in BOOLEAN :
           call = [op |-> "none", date |-> date, nd_score |-> nd_score,
                   opp_score |-> opp_score, status |-> status, flags |-> flags,
                   show_time |-> show_time]
    /\ ret = Raised("none", <<>>)

\* NdSchedule.generate_image(settings, device_config) on the one-game season
RenderGame ==
    \E r \in {ScheduleImage(ncache,
                              SSettings(JBool(call.show_time), Absent, Absent, Absent,
                                        Absent, Absent),
                              now, GameNet(call))} :
        /\ call.op = "none"
        /\ call' = [call EXCEPT !.op = "schedule_image"]
        /\ ncache' = r.cache
        /\ ret' = r.out
        /\ UNCHANGED <<now, rcache>>

\* NdSchedule._format_game_datetime(iso_str, show_time)
CallFormatGameDatetime ==
    /\ call.op = "none"
    /\ call' = [call EXCEPT !.op = "format_game_datetime"]
    /\ ret' = [status |-> "ok", text |-> FormatGameDatetime(call.date, call.show_time)]
    /\ UNCHANGED <<now, rcache, ncache>>

NextGame == RenderGame \/ CallFormatGameDatetime

SpecGame == InitGame /\ [][NextGame]_vars

\* the game of the call as the claims word it
TextIsFinal(x) == StartsWith(StrUpper(x), S_FINAL)
TextIsStatusFinal(x) == StartsWith(StrUpper(x), S_STATUS_FINAL)
CallStatusType ==
    IF call.status.t = "dict" /\ call.status.type.t = "dict"
    THEN call.status.type
    ELSE StatusType(JNone, <<>>, <<>>, <<>>)
CallStatusTexts ==
    {CallStatusType.name, CallStatusType.detail, CallStatusType.shortDetail,
     CallStatusType.description}
CallHasWinnerFlag == call.flags[1].t = "bool" \/ call.flags[2].t = "bool"
\* completed as C9 has it
CallCompleted ==
    \/ CallStatusType.completed = JBool(TRUE)
    \/ StrLower(CallStatusType.state) = S_post
    \/ \E x \in CallStatusTexts : TextIsFinal(x)
    \/ CallHasWinnerFlag
CallScoresParse == SafeInt(call.nd_score).ok /\ SafeInt(call.opp_score).ok
Mine == SafeInt(call.nd_score).n
Theirs == SafeInt(call.opp_score).n
ScoreLine(letter) == <<letter, " ">> \o IntToStr(Mine) \o <<"-">> \o IntToStr(Theirs)
RowOfGame == ret.rows[1]
GameRendered == call.op = "schedule_image" /\ ret.status = "ok" /\ Len(ret.rows) = 1

\* what C9 says of the result once it is non-empty
ResultWording ==
    RowOfGame.result # <<>>
    => /\ (Mine > Theirs) <=> (RowOfGame.result = ScoreLine("W") /\ RowOfGame.result_class = "win")
       /\ (Mine < Theirs) <=> (RowOfGame.result = ScoreLine("L") /\ RowOfGame.result_class = "lose")
       /\ (Mine = Theirs) <=> (RowOfGame.result = ScoreLine("T") /\ RowOfGame.result_class = "tie")

\* C9 as stated: the result of a row is non-empty iff the game is completed
\* (completed true, state post, a status text starting with FINAL, or a boolean
\* winner flag) and both scores parse.
C9_ResultIffCompleted ==
    GameRendered
    => /\ (RowOfGame.result # <<>>) <=> (CallCompleted /\ CallScoresParse)
       /\ ResultWording

\* C9, amended: the result of a row is non-empty iff both scores parse and the
\* game counts as final: status completed is true, or its state is post, or one
\* of its texts (name, detail, shortDetail, description) starts with FINAL or
\* with STATUS_FINAL, case-insensitively, or either side has a boolean winner
\* flag.  When non-empty it is "W m-t" (win) iff mine > theirs, "L m-t" (lose)
\* iff mine < theirs, "T m-t" (tie) iff equal.
C9_ResultIffFinalish ==
    GameRendered
    => /\ (RowOfGame.result # <<>>)
            <=> ( /\ CallScoresParse
                  /\ (CallCompleted \/ \E x \in CallStatusTexts : TextIsStatusFinal(x)) )
       /\ ResultWording

\* 31 to 17.0 under a status named Status_Final and nothing else
C9_Witness ==
    /\ GameRendered
    /\ call.nd_score = JStr(S_31) /\ call.opp_score = JStr(S_17p0)
    /\ call.status = Status(StatusType(JBool(FALSE), S_pre, S_statusfinal, <<>>))
    /\ ~CallHasWinnerFlag
    /\ RowOfGame.result = <<"W"," ","3","1","-","1","7">> /\ RowOfGame.result_class = "win"

\* the date text of the call: of the formatter, or of the row of the render
DateFormatted == call.op = "format_game_datetime" \/ GameRendered
DateText == IF call.op = "format_game_datetime" THEN ret.text ELSE RowOfGame.date
DateUnparsable == call.date = <<>> \/ ~IsoOk(call.date)

\* C10 as stated: an absent or unparsable date is shown as "TBD".
C10_UnparsableIsTbd ==
    /\ (DateFormatted /\ DateUnparsable) => DateText = <<"T","B","D">>
    /\ call.op \in {"format_game_datetime", "schedule_image"} => ret.status = "ok"

\* C10, amended: the formatter never raises; it returns "TBD" when the date is
\* absent or empty, and the first ten characters of the date as given when the
\* date is not empty and cannot be parsed.
C10_TbdOrRawPrefix ==
    /\ (DateFormatted /\ call.date = <<>>) => DateText = <<"T","B","D">>
    /\ (DateFormatted /\ call.date # <<>> /\ ~IsoOk(call.date))
         => DateText = SubSeq(call.date, 1, Min(10, Len(call.date)))
    /\ call.op \in {"format_game_datetime", "schedule_image"} => ret.status = "ok"

\* a date that does not parse is shown cut to ten characters
C10_Witness ==
    /\ GameRendered /\ call.date = D_long
    /\ RowOfGame.date = <<"2","0","2","4","-","0","9","-","0","7">>

----------------------------------------------------------------------------
(* Renders against a network: every render draws what each URL answers while
   it runs.  call.net keeps the draw. *)

S_28 == <<"2","8">>
S_7 == <<"7">>

\* Notre Dame's season: one finished home game against Navy
NdGameNavy ==
    Game(D_0907, Competition(<<Competitor(TeamND, JStr(S_31), JBool(TRUE), S_home),
                               Competitor(TeamNavy, JStr(S_17), JBool(FALSE), S_away)>>,
                             Status(StatusType(JBool(TRUE), S_post, <<>>, <<>>)), FALSE))
\* Navy's earlier game, won 28-7
OppGameWon ==
    Game(D_0831, Competition(<<Competitor(TeamNavy, JStr(S_28), JNone, S_home),
                               Competitor(TeamTexas, JStr(S_7), JNone, S_away)>>,
                             Status(StatusType(JBool(TRUE), S_post, <<>>, <<>>)), FALSE))
\* the same game dated without an offset
OppGameNaive == [OppGameWon EXCEPT !.date = D_0914]

NdSeason == SchedDoc(<<NdGameNavy>>)

NetUp ==
    [core |-> Ok(CoreDoc(2024)), rank |-> Ok(DocB), ndteam |-> Ok(TeamDoc(TeamND)),
     meta |-> Ok(TeamDoc(TeamNavy)),
     nd |-> FirstAnswers(NdSeason), opp |-> FirstAnswers(SchedDoc(<<OppGameWon>>))]
\* the tracked team's schedule is down
NetNdDown == [NetUp EXCEPT !.nd = AllFail]
\* its first URL fails, the second answers
NetNdSecond == [NetUp EXCEPT !.nd = [v \in 1..7 |-> IF v = 2 THEN Ok(NdSeason) ELSE Fail]]
\* the opponents' schedules are down
NetOppDown == [NetUp EXCEPT !.opp = AllFail, !.meta = Fail]
\* an opponent's schedule dates a game without an offset
NetOppNaive == [NetUp EXCEPT !.opp = FirstAnswers(SchedDoc(<<OppGameWon, OppGameNaive>>))]
\* the rankings feed is down, or answers null
NetRankDown == [NetUp EXCEPT !.rank = Fail, !.core = Fail]
NetRankNull == [NetUp EXCEPT !.rank = Ok(NoneDoc), !.ndteam = Fail]

Nets == {NetUp, NetNdDown, NetNdSecond, NetOppDown, NetOppNaive, NetRankDown, NetRankNull}

NetSettingsSet ==
    { SSettings(Absent, Absent, Absent, Absent, Absent, Absent),
      SSettings(Absent, Absent, Absent, Absent, JStr(S_0), Absent),
      SSettings(Absent, JStr(S_false), Absent, Absent, Absent, Absent) }

InitNet ==
    /\ now = Epoch0
    /\ rcache = RankingsCacheInit
    /\ ncache = NdCacheInit
    /\ call = [op |-> "none", net |-> NetUp, ttl |-> 0]
    /\ ret = Raised("none", <<>>)

\* NdSchedule.generate_image(settings, device_config)
RenderSchedule ==
    \E settings \in NetSettingsSet, net \in Nets :
        \E r \in {ScheduleImage(ncache, settings, now + Tick, net)} :
            /\ OnlySchedule
            /\ Advance(Tick)
            /\ ncache' = r.cache
            /\ call' = [op |-> "schedule_image", net |-> net,
                        ttl |-> ClampedInt(settings.cache_minutes, 30, 0, 1440).n * 60]
            /\ ret' = r.out
            /\ UNCHANGED rcache

\* CfbRankings.generate_image(settings, device_config)
RenderRankingsNet ==
    \E settings \in RSettingsSet, net \in {NetUp, NetRankDown, NetRankNull} :
        LET r == RankingsImage(rcache, settings, now + Tick, net.rank)
        IN  /\ OnlyRankings
            /\ Advance(Tick)
            /\ rcache' = r.cache
            /\ call' = [op |-> "rankings_image", net |-> net,
                        ttl |-> ClampedInt(settings.cache_minutes, 30, 0, 1440).n * 60]
            /\ ret' = r.out
            /\ UNCHANGED ncache

NextNet == RenderSchedule \/ RenderRankingsNet

SpecNet == InitNet /\ [][NextNet]_vars

\* the GETs of the render of the call: those of the rankings feed, and those of
\* the tracked team's schedule
IsFeedGet(u) == u.k = "rankings"
IsNdScheduleGet(u) == u.k = "schedule" /\ u.team = ND_TEAM_ID
IsOppScheduleGet(u) == u.k = "schedule" /\ u.team # ND_TEAM_ID
IsRender(c) == c.op \in {"rankings_image", "schedule_image"}

FeedUnusable(net, cache) ==
    \/ net.rank.fail
    \/ net.rank.data = NoneDoc
    \/ (RankingsUrl \in DOMAIN cache.data /\ cache.data[RankingsUrl] = NoneDoc)

C8_EnrichmentNeverFatal ==
    call.op = "schedule_image"
    => LET oppgets == {i \in 1..Len(ret.gets) : IsOppScheduleGet(ret.gets[i])}
       IN  /\ ret.status # "TypeError"
           /\ ( /\ ret.status = "ok" /\ Len(ret.rows) = 1
                /\ Cardinality(oppgets) = 7
                /\ \A i \in oppgets : Respond(call.net, ret.gets[i]).fail )
              => ret.rows[1].opp_record = <<>>

----------------------------------------------------------------------------
(* Settings flags: _to_bool on the values a settings form can send, and the two
   renders with a flag set to the value.  call.v is the value. *)

S_Yes == <<"Y","e","s">>
S_oFF == <<"o","F","F">>
S_no_padded == <<" ","n","o"," ">>
S_blank == <<" ">>
S_nope == <<"n","o","p","e">>
S_null == <<"n","u","l","l">>

FlagStrings ==
    TrueTokens \cup FalseTokens
    \cup {StrUpper(x) : x \in TrueTokens \cup FalseTokens}
    \cup {S_Yes, S_oFF, S_no_padded, S_blank, S_nope, S_null}
FlagScalars == {JNone, JBool(TRUE), JBool(FALSE)} \cup {JStr(x) : x \in FlagStrings}
\* a list-wrapped value: what a form sends for a repeated field
FlagLists ==
    {JList(<<a>>) : a \in FlagScalars}
    \cup {JList(<<a, b>>) : a \in FlagScalars, b \in {JNone, JBool(TRUE), JStr(S_oFF),
                                                       JStr(S_Yes), JStr(S_blank)}}
    \cup {JList(<<>>), JList(<<JList(<<>>)>>), JList(<<JList(<<JStr(S_0)>>)>>)}
FlagValues == {Absent} \cup FlagScalars \cup FlagLists

InitFlag ==
    /\ now = Epoch0
    /\ rcache = RankingsCacheInit
    /\ ncache = NdCacheInit
    /\ \E v \in FlagValues : call = [op |-> "none", v |-> v]
    /\ ret = Raised("none", <<>>)

\* _to_bool(v) of a value that is present
CallToBool ==
    /\ call.op = "none" /\ call.v # Absent
    /\ call' = [call EXCEPT !.op = "to_bool"]
    /\ ret' = [status |-> "ok", flag |-> ToBool(call.v)]
    /\ UNCHANGED <<now, rcache, ncache>>

\* CfbRankings.generate_image with show_record set to the value
RenderFlagRankings ==
    LET r == RankingsImage(rcache, RSettings(<<>>, Absent, call.v, Absent), now, Ok(DocA))
    IN  /\ call.op = "none"
        /\ call' = [call EXCEPT !.op = "rankings_image"]
        /\ rcache' = r.cache
        /\ ret' = r.out
        /\ UNCHANGED <<now, ncache>>

\* NdSchedule.generate_image with show_time and hide_logo set to the value
RenderFlagSchedule ==
    \E r \in {ScheduleImage(ncache, SSettings(call.v, Absent, Absent, call.v, Absent, Absent),
                            now, NetUp)} :
        /\ call.op = "none"
        /\ call' = [call EXCEPT !.op = "schedule_image"]
        /\ ncache' = r.cache
        /\ ret' = r.out
        /\ UNCHANGED <<now, rcache>>

NextFlag == CallToBool \/ RenderFlagRankings \/ RenderFlagSchedule

SpecFlag == InitFlag /\ [][NextFlag]_vars

\* the flags as the renders show them: show_record in the bundle of the rankings
\* render; show_time in the date of the schedule row; hide_logo in the request
\* for the tracked team's logo
ShownTime == ret.rows[1].date = <<"S","e","p"," ","0","7"," ","/"," ","3",":","3","0"," ","P","M">>
LogoHidden == ~(\E i \in 1..Len(ret.gets) : ret.gets[i] = TeamUrl) /\ ret.rows[1].logo = <<>>
LogoShown == (\E i \in 1..Len(ret.gets) : ret.gets[i] = TeamUrl) /\ ret.rows[1].logo = U_big

\* a string read as a word: without the blanks around it, in lower case
Word(x) == StrLower(StrStrip(x))
IsFalseWord(x) ==
    Word(x) \in {<<"0">>, <<"f","a","l","s","e">>, <<"n","o">>, <<"o","f","f">>, <<>>}
IsTrueWord(x) ==
    Word(x) \in {<<"1">>, <<"t","r","u","e">>, <<"y","e","s">>, <<"o","n">>,
                 <<"c","h","e","c","k","e","d">>}

\* C11 as stated: the coercion of a value
StatedScalar(v) ==
    CASE v.t = "bool" -> v.n = 1
      [] v.t = "str"  -> IF StrLower(v.s) \in FalseTokens THEN FALSE ELSE TRUE
      [] OTHER        -> FALSE
StatedCoercion(v) ==
    IF v.t = "list" /\ v.l # <<>> /\ v.l[Len(v.l)].t # "list"
    THEN StatedScalar(v.l[Len(v.l)])
    ELSE StatedScalar(v)
StatedCase(v) == v.t # "list" \/ (v.l # <<>> /\ v.l[Len(v.l)].t # "list")

\* C11 as stated: null and an absent setting give false, the false tokens in any
\* letter case give false, every other non-empty string gives true, a list gives
\* the coercion of its last element; for every flag of both renders.
C11_AbsentAndNullFalse ==
    StatedCase(call.v)
    => /\ call.op = "to_bool" => ret.flag = StatedCoercion(call.v)
       /\ call.op = "rankings_image" => ret.show_record = StatedCoercion(call.v)
       /\ call.op = "schedule_image"
            => /\ ShownTime <=> StatedCoercion(call.v)
               /\ IF StatedCoercion(call.v) THEN LogoHidden ELSE LogoShown

\* C11, amended: the value the coercion decides on is the setting's value, the
\* flag's default when the setting is absent (true for show_record and show_time,
\* false for hide_logo), and the last element of a non-empty list.  A boolean
\* gives itself; null gives false; a string is read without the blanks around it
\* and in lower case: 0, false, no, off and the empty word give false (so a
\* string of blanks gives false), every other word true; an empty list gives
\* false, and a last element that is itself a list gives true iff it is not empty.
Decides(v, default) ==
    IF v.t = "absent" THEN JBool(default)
    ELSE IF v.t = "list" /\ v.l # <<>> THEN v.l[Len(v.l)]
    ELSE v
Coerced(v, default) ==
    LET d == Decides(v, default)
    IN  CASE d.t = "bool" -> d.n = 1
          [] d.t = "none" -> FALSE
          [] d.t = "str"  -> ~IsFalseWord(d.s)
          [] d.t = "list" -> d.l # <<>>
C11_CoercionOfValueOrDefault ==
    /\ call.op = "to_bool" => ret.flag = Coerced(call.v, FALSE)
    /\ call.op = "rankings_image"
         => ret.status = "ok" /\ ret.show_record = Coerced(call.v, TRUE)
    /\ call.op = "schedule_image"
         => /\ ret.status = "ok" /\ Len(ret.rows) = 1
            /\ ShownTime <=> Coerced(call.v, TRUE)
            /\ IF Coerced(call.v, FALSE) THEN LogoHidden ELSE LogoShown

\* the list ["Yes", "oFF"] as show_record: the last element decided, in any case
C11_Witness ==
    /\ call.op = "rankings_image" /\ call.v = JList(<<JStr(S_Yes), JStr(S_oFF)>>)
    /\ ret.status = "ok" /\ ~ret.show_record
    /\ \A i \in 1..Len(ret.rows) : ret.rows[i].record = <<>>

\* an absent show_time and hide_logo: the time is shown and the logo requested
C11_WitnessAbsent ==
    /\ call.op = "schedule_image" /\ call.v = Absent
    /\ ShownTime /\ LogoShown

----------------------------------------------------------------------------
(* The opponent's pregame record: Notre Dame plays Navy on D_0907, and
   call.events is Navy's own schedule as its first schedule URL answers it. *)

\* the longest schedule of the opponent
MaxOppGames == 2

S_14 == <<"1","4">>
Final == Status(StatusType(JBool(TRUE), S_post, <<>>, <<>>))
NotPlayed == Status(StatusType(JBool(FALSE), S_pre, S_scheduled, <<>>))

\* a game of Navy against Texas
OppGame(date, mine, theirs, flag, status) ==
    Game(date, Competition(<<Competitor(TeamNavy, mine, flag, S_home),
                             Competitor(TeamTexas, theirs, JNone, S_away)>>,
                           status, FALSE))

G_won == OppGame(D_0831, JStr(S_28), JStr(S_7), JNone, Final)
G_lost == OppGame(D_0831, JStr(S_7), JStr(S_28), JNone, Final)
G_tied == OppGame(D_0831, JStr(S_14), JStr(S_14), JNone, Final)
\* won 28-7 by the scores, lost by the flag
G_wonFlagLost == OppGame(D_0831, JStr(S_28), JStr(S_7), JBool(FALSE), Final)
G_tiedFlagWon == OppGame(D_0831, JStr(S_14), JStr(S_14), JBool(TRUE), Final)
G_noScoreFlagWon == OppGame(D_0831, JNone, JNone, JBool(TRUE), Final)
G_noScore == OppGame(D_0831, JNone, JNone, JNone, Final)
\* postponed: not played, the scores are placeholders
G_postponed == OppGame(D_0831, JStr(S_0), JStr(S_0), JNone, NotPlayed)
\* at the time of the game, after it, undated, dated without an offset
G_sameTime == OppGame(D_0907, JStr(S_28), JStr(S_7), JNone, Final)
G_later == OppGame(D_0921, JStr(S_28), JStr(S_7), JBool(TRUE), Final)
G_undated == OppGame(<<>>, JStr(S_28), JStr(S_7), JNone, Final)
G_naive == OppGame(D_0914, JStr(S_7), JStr(S_28), JNone, Final)

OppGames == {G_won, G_lost, G_tied, G_wonFlagLost, G_tiedFlagWon, G_noScoreFlagWon,
             G_noScore, G_postponed, G_sameTime, G_later, G_undated, G_naive}

RecordNet(events) == [NetUp EXCEPT !.opp = FirstAnswers(SchedDoc(events))]

InitRecord ==
    /\ now = Epoch0
    /\ rcache = RankingsCacheInit
    /\ ncache = NdCacheInit
    /\ \E events \in SeqsUpTo(OppGames, MaxOppGames) : call = [op |-> "none", events |-> events]
    /\ ret = Raised("none", <<>>)

\* _opponent_pregame_record(2426, 2024, the date of the game, 1800)
CallOpponentPregameRecord ==
    \E r \in {OpponentPregameRecord([cache |-> ncache, gets |-> <<>>], DigitsToInt(Id_Navy),
                                    2024, ParseIso(D_0907), 1800, now,
                                    RecordNet(call.events))} :
        /\ call.op = "none"
        /\ call' = [call EXCEPT !.op = "opponent_pregame_record"]
        /\ ncache' = r.w.cache
        /\ ret' = [status |-> IF r.raised THEN "TypeError" ELSE "ok", text |-> r.s,
                   gets |-> r.w.gets]
        /\ UNCHANGED <<now, rcache>>

\* NdSchedule.generate_image(settings, device_config)
RenderRecord ==
    \E r \in {ScheduleImage(ncache, SSettings(Absent, Absent, Absent, Absent, Absent, Absent),
                            now, RecordNet(call.events))} :
        /\ call.op = "none"
        /\ call' = [call EXCEPT !.op = "schedule_image"]
        /\ ncache' = r.cache
        /\ ret' = r.out
        /\ UNCHANGED <<now, rcache>>

NextRecord == CallOpponentPregameRecord \/ RenderRecord

SpecRecord == InitRecord /\ [][NextRecord]_vars

\* the games of the opponent by position, and what the claims say of each
OppIdx == 1..Len(call.events)
Side(i, k) == call.events[i].competitions[1].competitors[k]
HasDate(i) == call.events[i].date # <<>> /\ IsoOk(call.events[i].date)
NaiveDate(i) == HasDate(i) /\ ~IsoOf(call.events[i].date).aware
BeforeGame(i) == HasDate(i) /\ IsoOf(call.events[i].date).epoch < IsoOf(D_0907).epoch
Played(i) == call.events[i].competitions[1].status = Final
BothScores(i) == SafeInt(Side(i, 1).score).ok /\ SafeInt(Side(i, 2).score).ok
HasFlag(i) == Side(i, 1).winner.t = "bool"
ByScores(i) ==
    IF SafeInt(Side(i, 1).score).n > SafeInt(Side(i, 2).score).n THEN "W"
    ELSE IF SafeInt(Side(i, 1).score).n < SafeInt(Side(i, 2).score).n THEN "L" ELSE "T"
ByFlag(i) == IF Side(i, 1).winner = JBool(TRUE) THEN "W" ELSE "L"

\* the record text of a tally
Tally(W, L, T) ==
    IF Cardinality(T) = 0
    THEN IntToStr(Cardinality(W)) \o <<"-">> \o IntToStr(Cardinality(L))
    ELSE IntToStr(Cardinality(W)) \o <<"-">> \o IntToStr(Cardinality(L)) \o <<"-">>
         \o IntToStr(Cardinality(T))

\* the record the operation of the call gave, when it gave one
RecordGiven ==
    \/ call.op = "opponent_pregame_record" /\ ret.status = "ok"
    \/ call.op = "schedule_image" /\ ret.status = "ok" /\ Len(ret.rows) = 1
GivenText == IF call.op = "schedule_image" THEN ret.rows[1].opp_record ELSE ret.text
RecordAsked == call.op \in {"opponent_pregame_record", "schedule_image"}

\* C16 as stated: a game before the date with both scores is tallied by the
\* scores, the winner flag deciding only when a score is missing.
StatedOutcome(i) ==
    IF BothScores(i) THEN ByScores(i) ELSE IF HasFlag(i) THEN ByFlag(i) ELSE "none"
Outcome(i) ==
    IF HasFlag(i) THEN ByFlag(i) ELSE IF BothScores(i) THEN ByScores(i) ELSE "none"
C17_CompletedBeforeOnly ==
    RecordAsked
    => /\ RecordGiven
       /\ GivenText = Tally({i \in OppIdx : BeforeGame(i) /\ Played(i) /\ Outcome(i) = "W"},
                             {i \in OppIdx : BeforeGame(i) /\ Played(i) /\ Outcome(i) = "L"},
                             {i \in OppIdx : BeforeGame(i) /\ Played(i) /\ Outcome(i) = "T"})

----------------------------------------------------------------------------
(* Opponent ranks: the schedule render of the one-game season against Navy,
   over the rank settings, the season the league reports and the rankings
   document.  call keeps the draw. *)

S_2024 == <<"2","0","2","4">>
S_2023 == <<"2","0","2","3">>

NavyAt(rk) == RankEntry(rk, JNone, TeamNavy, <<>>)
ApWith(date, ranks) == PollOf(S_ap, N_APTop25, N_APPoll, date, ranks)
CfpWith(date, ranks) == PollOf(<<>>, N_CFP, N_CFPRank, date, ranks)

RankDocs ==
    { \* an AP poll only
      RankingsDoc(<<ApWith(D_0914, <<EntryA, NavyAt(JInt(7))>>)>>),
      \* an older CFP poll beside a newer AP poll
      RankingsDoc(<<ApWith(D_0914, <<NavyAt(JInt(7))>>), CfpWith(D_0907, <<NavyAt(JInt(12))>>)>>),
      \* the CFP poll does not rank the opponent, the AP poll does
      RankingsDoc(<<CfpWith(D_0907, <<EntryA>>), ApWith(D_0914, <<NavyAt(JInt(7))>>)>>),
      \* two CFP polls
      RankingsDoc(<<CfpWith(D_0907, <<NavyAt(JInt(12))>>), CfpWith(D_0914, <<NavyAt(JInt(3))>>)>>),
      \* ranks outside 1..25, as text, unreadable
      RankingsDoc(<<ApWith(D_0914, <<NavyAt(JInt(30))>>)>>),
      RankingsDoc(<<ApWith(D_0914, <<NavyAt(JStr(S_7))>>)>>),
      RankingsDoc(<<ApWith(D_0914, <<NavyAt(JStr(S_abc))>>)>>),
      \* a coaches poll only
      RankingsDoc(<<PollOf(T_usa, N_AFCA, N_CoachesPoll, D_0907, <<NavyAt(JInt(5))>>)>>),
      \* no poll
      RankingsDoc(<<>>) }

InitRank ==
    /\ now = Epoch0
    /\ rcache = RankingsCacheInit
    /\ ncache = NdCacheInit
    /\ \E show_rank \in {Absent, JBool(TRUE), JStr(S_false)},
          hide_rank \in {Absent, JStr(<<"o","n">>)},
          season_year \in {Absent, JStr(S_2024), JStr(S_2023)},
          core \in {Ok(CoreDoc(2024)), Fail},
          doc \in RankDocs :
           call = [op |-> "none", show_rank |-> show_rank, hide_rank |-> hide_rank,
                   season_year |-> season_year, core |-> core, doc |-> doc]
    /\ ret = Raised("none", <<>>)

RankNet(c) == [NetUp EXCEPT !.core = c.core, !.rank = Ok(c.doc)]

\* NdSchedule.generate_image(settings, device_config)
RenderRank ==
    \E r \in {ScheduleImage(ncache,
                            SSettings(Absent, call.show_rank, call.hide_rank, Absent, Absent,
                                      call.season_year),
                            now, RankNet(call))} :
        /\ call.op = "none"
        /\ call' = [call EXCEPT !.op = "schedule_image"]
        /\ ncache' = r.cache
        /\ ret' = r.out
        /\ UNCHANGED <<now, rcache>>

\* NdSchedule._get_rank_map(1800)
CallGetRankMap ==
    \E r \in {GetRankMap([cache |-> ncache, gets |-> <<>>], 1800, now, RankNet(call))} :
        /\ call.op = "none"
        /\ call' = [call EXCEPT !.op = "get_rank_map"]
        /\ ncache' = r.w.cache
        /\ ret' = [status |-> r.status, map |-> r.map, label |-> r.label, gets |-> r.w.gets]
        /\ UNCHANGED <<now, rcache>>

NextRank == RenderRank \/ CallGetRankMap

SpecRank == InitRank /\ [][NextRank]_vars

\* the settings and seasons of the call
ShowRankOn == call.show_rank \in {Absent, JBool(TRUE)}
HideRankOn == call.hide_rank # Absent
Detected == IF call.core.fail THEN 2023 ELSE call.core.data.season
Selected ==
    IF call.season_year = JStr(S_2024) THEN 2024
    ELSE IF call.season_year = JStr(S_2023) THEN 2023 ELSE Detected

\* the polls of the document: the CFP ones (name with "playoff selection
\* committee" or shortName with "cfp") and the AP ones, and the poll the ranks
\* come from: the latest CFP poll if there is one, else the latest AP poll
DocPolls == call.doc.rankings.l
CfpAt == {i \in 1..Len(DocPolls) :
            \/ Contains(S_psc, StrLower(DocPolls[i].name))
            \/ Contains(S_cfp, StrLower(DocPolls[i].shortName))}
ApAt == {i \in 1..Len(DocPolls) : StrLower(DocPolls[i].type) = S_ap}
LatestOf(I) == CHOOSE i \in I : \A j \in I : IsoOf(DocPolls[j].dates[1]).epoch
                                               <= IsoOf(DocPolls[i].dates[1]).epoch
HasSource == CfpAt # {} \/ ApAt # {}
Source == IF CfpAt # {} THEN DocPolls[LatestOf(CfpAt)] ELSE DocPolls[LatestOf(ApAt)]
\* the ranks the source gives the team: integers, read from numbers or digits
RanksOf(poll, id) ==
    {IntOf(poll.ranks.l[k].rk[1]).n :
        k \in {j \in 1..Len(poll.ranks.l) : /\ poll.ranks.l[j].team.id = id
                                             /\ poll.ranks.l[j].rk[1].t # "none"
                                             /\ IntOf(poll.ranks.l[j].rk[1]).ok}}

C18_WitnessOtherSeason ==
    /\ call.op = "schedule_image" /\ ret.status = "ok" /\ Len(ret.rows) = 1
    /\ ShowRankOn /\ ~HideRankOn /\ Selected # Detected
    /\ HasSource /\ RanksOf(Source, Id_Navy) = {7}
    /\ ret.rows[1].opp_rank = NoRank

----------------------------------------------------------------------------
(* Overlapping fetches.  _cache is a class attribute of both plugins
   (cfbrankings.py line 22, ndschedule.py line 42), so two threads rendering at
   the same time run the fetch method on the same dicts.  Each thread runs the
   method statement by statement; a step is one statement that reads or writes
   the shared cache.  call.thr holds each thread's position and locals;
   call.tsBy and call.dataBy number the fetches that wrote the stored timestamp
   and the stored payload (0: what Init put there), call.tsData is the payload
   the fetch numbered call.tsBy obtained, call.issued the fetches that issued a
   GET, call.who the fetch that returned last. *)

\* how many fetches are started in all
MaxFetches == 3

Threads == {"a", "b"}
RaceTtl == 2 * Tick
RaceTtls == {0, RaceTtl}
RaceDelays == {0, Tick}

IdleThread == [pc |-> "idle", id |-> 0, t |-> 0, ts |-> 0, data |-> NoneDoc]

RaceUrl(cls) == IF cls = "nd" THEN TeamUrl ELSE RankingsUrl
RaceResps(cls) ==
    IF cls = "nd" THEN {Fail, Ok(CoreDoc(2024)), Ok(CoreDoc(2025))}
    ELSE {Fail, Ok(Week1), Ok(Week2)}

\* an entry that expires at Epoch0
ExpiredRankings == [ts |-> Epoch0 - RaceTtl, data |-> Week1]
ExpiredNd == [ts |-> Put(EmptyDict, TeamUrl, Epoch0 - RaceTtl),
              data |-> Put(EmptyDict, TeamUrl, CoreDoc(2024))]

InitRace ==
    /\ now = Epoch0
    /\ \E cls \in {"nd", "cfb"}, ttl \in RaceTtls :
          /\ call = [op |-> "race", cls |-> cls, ttl |-> ttl, url |-> RaceUrl(cls),
                     thr |-> [th \in Threads |-> IdleThread],
                     n |-> 0, tsBy |-> 0, dataBy |-> 0, tsData |-> NoneDoc,
                     issued |-> {}, who |-> 0]
          /\ rcache \in IF cls = "cfb" THEN {RankingsCacheInit, ExpiredRankings}
                        ELSE {RankingsCacheInit}
          /\ ncache \in IF cls = "nd" THEN {NdCacheInit, ExpiredNd} ELSE {NdCacheInit}
    /\ ret = Raised("none", <<>>)

At(th, pc) == call.op = "race" /\ call.thr[th].pc = pc
Goto(th, T) == [call EXCEPT !.thr[th] = T]

\* the test of ndschedule.py line 117 on the ts read at line 116
NdHitAtLate(ts, c, url, ttl, t) == ttl > 0 /\ url \in DOMAIN c.data /\ (t - ts) <= ttl
NdHitAt(ts, c, url, ttl, t) == ttl > 0 /\ url \in DOMAIN c.data /\ (t - ts) < ttl

\* now = time.time()
RaceBegin(th) ==
    /\ At(th, "idle")
    /\ call.n < MaxFetches
    /\ \E dt \in RaceDelays :
          /\ Advance(dt)
          /\ call' = [Goto(th, [IdleThread EXCEPT
                                   !.pc = IF call.cls = "nd" THEN "read_ts" ELSE "test",
                                   !.id = call.n + 1, !.t = now + dt])
                      EXCEPT !.n = call.n + 1]
    /\ UNCHANGED <<rcache, ncache, ret>>

\* ts = self._cache["ts"].get(url, 0.0)
RaceReadTs(th) ==
    /\ At(th, "read_ts")
    /\ call' = Goto(th, [call.thr[th] EXCEPT !.pc = "test", !.ts = NdTs(ncache, call.url)])
    /\ UNCHANGED <<now, rcache, ncache, ret>>

\* the if of line 117 (ndschedule.py) or line 100 (cfbrankings.py, which reads
\* the stored timestamp here)
RaceTest(th) ==
    /\ At(th, "test")
    /\ LET T == call.thr[th]
           hit == IF call.cls = "nd"
                  THEN NdHitAt(T.ts, ncache, call.url, call.ttl, T.t)
                  ELSE RankingsHit(rcache, call.ttl, T.t)
       IN  call' = Goto(th, [T EXCEPT !.pc = IF hit THEN "hit" ELSE "get",
                                      !.ts = IF call.cls = "nd" THEN T.ts ELSE rcache.ts])
    /\ UNCHANGED <<now, rcache, ncache, ret>>

\* return self._cache["data"][url] / return self._cache["data"]
RaceHit(th) ==
    /\ At(th, "hit")
    /\ call' = [Goto(th, IdleThread) EXCEPT !.who = call.thr[th].id]
    /\ ret' = [Raised("ok", <<>>)
               EXCEPT !.data = IF call.cls = "nd" THEN ncache.data[call.url]
                               ELSE rcache.data]
    /\ UNCHANGED <<now, rcache, ncache>>

\* session.get, raise_for_status, resp.json and the if that guards the writes.
\* The clock is read by RaceBegin only, so the time the GET takes shows as the
\* delay of the fetches that begin after it.
RaceGet(th) ==
    /\ At(th, "get")
    /\ \E resp \in RaceResps(call.cls) :
          LET T == call.thr[th]
              store == IF call.cls = "nd" THEN NdStore(call.ttl)
                       ELSE RankingsStore(call.ttl)
          IN  /\ now' = now
              /\ IF resp.fail
                 THEN /\ call' = [Goto(th, IdleThread)
                                  EXCEPT !.who = T.id, !.issued = call.issued \cup {T.id}]
                      /\ ret' = Raised("FetchError", <<call.url>>)
                 ELSE /\ call' = [Goto(th, [T EXCEPT !.data = resp.data,
                                                     !.pc = IF store THEN "write_ts"
                                                            ELSE "return"])
                                  EXCEPT !.issued = call.issued \cup {T.id}]
                      /\ ret' = ret
    /\ UNCHANGED <<rcache, ncache>>

\* self._cache["ts"][url] = now / self._cache["ts"] = now
RaceWriteTs(th) ==
    /\ At(th, "write_ts")
    /\ LET T == call.thr[th]
       IN  /\ call' = [Goto(th, [T EXCEPT !.pc = "write_data"])
                       EXCEPT !.tsBy = T.id, !.tsData = T.data]
           /\ IF call.cls = "nd"
              THEN /\ ncache' = [ncache EXCEPT !.ts = Put(ncache.ts, call.url, T.t)]
                   /\ rcache' = rcache
              ELSE /\ rcache' = [rcache EXCEPT !.ts = T.t]
                   /\ ncache' = ncache
    /\ UNCHANGED <<now, ret>>

\* self._cache["data"][url] = data / self._cache["data"] = data
RaceWriteData(th) ==
    /\ At(th, "write_data")
    /\ LET T == call.thr[th]
       IN  /\ call' = [Goto(th, [T EXCEPT !.pc = "return"]) EXCEPT !.dataBy = T.id]
           /\ IF call.cls = "nd"
              THEN /\ ncache' = [ncache EXCEPT !.data = Put(ncache.data, call.url, T.data)]
                   /\ rcache' = rcache
              ELSE /\ rcache' = [rcache EXCEPT !.data = T.data]
                   /\ ncache' = ncache
    /\ UNCHANGED <<now, ret>>

\* return data
RaceReturn(th) ==
    /\ At(th, "return")
    /\ call' = [Goto(th, IdleThread) EXCEPT !.who = call.thr[th].id]
    /\ ret' = [Raised("ok", <<call.url>>) EXCEPT !.data = call.thr[th].data]
    /\ UNCHANGED <<now, rcache, ncache>>

NextRace ==
    \E th \in Threads :
        \/ RaceBegin(th)
        \/ RaceReadTs(th)
        \/ RaceTest(th)
        \/ RaceHit(th)
        \/ RaceGet(th)
        \/ RaceWriteTs(th)
        \/ RaceWriteData(th)
        \/ RaceReturn(th)

SpecRace == InitRace /\ [][NextRace]_vars

\* what the shared cache holds for the key
StoredTs == IF call.cls = "nd" THEN NdTs(ncache, call.url) ELSE rcache.ts
HasStored == IF call.cls = "nd" THEN call.url \in DOMAIN ncache.data
             ELSE rcache.data # NoneDoc
StoredData == IF call.cls = "nd" THEN ncache.data[call.url] ELSE rcache.data

\* the fetch of thread th is past its GET
PastGet(th) == call.thr[th].pc \in {"write_ts", "write_data", "return"}
\* the fetch of thread th is between its test and the end of its writes
InFlight(th) == call.thr[th].pc \in {"get", "write_ts", "write_data"}

\* C20: nothing orders two fetches of one key.  The test of a fetch depends on
\* its own clock reading and on the timestamp it read, never on where the other
\* fetch is: it is answered from the cache when that timestamp is younger than
\* ttl, and issues a GET of its own otherwise, so two fetches that are past
\* their GET together have issued two GETs.  The GET leaves the cache as it
\* is.  A fetch answered from the cache is handed the payload stored at that
\* moment, whichever fetch wrote the timestamp it found fresh and whether or
\* not that fetch has written its payload yet.
C20_OverlappingFetches ==
    [][ call.op = "race" =>
        /\ \A th \in Threads :
              LET T == call.thr[th]
                  T1 == call'.thr[th]
              IN  /\ (T.pc = "test" /\ T1 # T)
                     => T1.pc = IF call.ttl > 0 /\ HasStored /\ T.t - T1.ts < call.ttl
                                THEN "hit" ELSE "get"
                  /\ (T.pc = "get" /\ T1 # T)
                     => /\ call'.issued = call.issued \cup {T.id}
                        /\ rcache' = rcache /\ ncache' = ncache
        /\ (\A th \in Threads : PastGet(th))
           => {call.thr[th].id : th \in Threads} \subseteq call.issued
        /\ (call'.who # call.who /\ ret'.gets = <<>>)
           => (ret'.status = "ok" /\ HasStored /\ ret'.data = StoredData)
      ]_vars

\* both fetches found the key expired and issued a GET; the older one wrote its
\* payload last, under the timestamp of the newer one; a third fetch, inside
\* the TTL of that timestamp, was handed the older fetch's payload without a GET
C20_Witness ==
    /\ call.op = "race" /\ call.ttl > 0
    /\ \A th \in Threads : call.thr[th].pc = "idle"
    /\ call.dataBy > 0 /\ call.tsBy > call.dataBy
    /\ {call.dataBy, call.tsBy} \subseteq call.issued
    /\ call.who > call.tsBy /\ call.who \notin call.issued
    /\ ret.status = "ok" /\ ret.gets = <<>>
    /\ ret.data = StoredData /\ ret.data # call.tsData
    /\ now - StoredTs < call.ttl

\* a fetch answered with the expired payload while another fetch has written
\* its timestamp and not yet its payload
C20_WitnessHalfWritten ==
    /\ call.op = "race" /\ call.ttl > 0
    /\ \E th \in Threads : call.thr[th].pc = "write_data" /\ call.thr[th].id = call.tsBy
    /\ call.dataBy = 0 /\ call.who > call.tsBy
    /\ ret.status = "ok" /\ ret.gets = <<>>
    /\ ret.data = StoredData /\ ret.data # call.tsData

====
